---------------------------- MODULE Spec2Model ----------------------------
(***************************************************************************)
(* A model of MakeDepartureList (src/src/departures.cpp): the computation  *)
(* of the departure/arrival board of one station from a snapshot of the    *)
(* vehicles calling there, their order lists and the client settings.      *)
(*                                                                         *)
(* Orders are addressed by their 0-based index in the vehicle's order      *)
(* list, as Vehicle::GetOrder does; the pointer NULL is the index -1.      *)
(***************************************************************************)
EXTENDS Integers, Sequences, FiniteSets, TLC

VARIABLES
    cfg,          \* the arguments and the client settings of the call
    veh,          \* the snapshot of the vehicles (read-only)
    pc,           \* "lookup" | "scan" | "loop" | "done" | "crashed"
    ti,           \* the vehicle type index of the outer for loop (line 110)
    vi,           \* the position in the current roster (line 126)
    next_orders,  \* SmallVector<OrderDate*>: the candidates
    least_order,  \* index into next_orders, 0 for NULL
    result,       \* the departure list returned
    i,            \* the countdown of the main loop (line 269)
    keys,         \* history: the selection key of each entry of result
    walk,         \* history: what the last step's walks examined
    exit,         \* history: how the function returned
    earlier,      \* history: what the earlier invocations on this snapshot returned
    \* UpdateHousesAndTowns / CheckMultiTileHouseTypes (src/src/saveload/town_sl.cpp)
    tile_map,               \* _m: the tiles of the map
    tpos,                   \* the loop variable t of CheckMultiTileHouseTypes (line 72)
    cargo_update_required,  \* the flag of the same name
    translate_house_types,  \* the argument of the same name of the running pass
    feature_missing,        \* what SlXvIsFeatureMissing(XSLFI_MORE_HOUSES, 2) answers
    hpc,                    \* "idle" | "pass1" | "pass2" | "done"
    start_map,              \* history: the map when the running pass began
    cleared,                \* history: the tiles the running pass cleared, in order
    \* ScriptDate (src/src/script/api/script_date.cpp)
    sd_call,                \* the call: the function and its arguments
    sd_ret,                 \* its return value, NoReturn before it returns
    sd_conv                 \* history: the date conversions the call performed

dvars == <<cfg, veh, pc, ti, vi, next_orders, least_order, result, i, keys, walk, exit,
           earlier>>
hvars == <<tile_map, tpos, cargo_update_required, translate_house_types, feature_missing,
           hpc, start_map, cleared>>
svars == <<sd_call, sd_ret, sd_conv>>
vars == <<dvars, hvars, svars>>

------------------------------------------------------------------------------
(* Program constants. *)

DAY_TICKS == 74
INT32_MAX == 2147483647
INVALID_STATION == 65535
LoopCap == 10000
NumVehicleTypes == 4

NULL == -1

D_TRAVELLING == "D_TRAVELLING"
D_CANCELLED == "D_CANCELLED"
D_ARRIVED == "D_ARRIVED"
D_DEPARTURE == "D_DEPARTURE"
D_ARRIVAL == "D_ARRIVAL"

OT_NOTHING == "OT_NOTHING"
OT_GOTO_STATION == "OT_GOTO_STATION"
OT_GOTO_WAYPOINT == "OT_GOTO_WAYPOINT"
OT_GOTO_DEPOT == "OT_GOTO_DEPOT"
OT_CONDITIONAL == "OT_CONDITIONAL"
OT_IMPLICIT == "OT_IMPLICIT"
OT_LOADING == "OT_LOADING"

OLF_LOAD_IF_POSSIBLE == "OLF_LOAD_IF_POSSIBLE"
OLFB_NO_LOAD == "OLFB_NO_LOAD"
OUF_UNLOAD_IF_POSSIBLE == "OUF_UNLOAD_IF_POSSIBLE"
OUFB_UNLOAD == "OUFB_UNLOAD"
OUFB_NO_UNLOAD == "OUFB_NO_UNLOAD"
ONSF_STOP_EVERYWHERE == "ONSF_STOP_EVERYWHERE"
ONSF_NO_STOP_AT_DESTINATION_STATION == "ONSF_NO_STOP_AT_DESTINATION_STATION"
ONSF_NO_STOP_AT_ANY_STATION == "ONSF_NO_STOP_AT_ANY_STATION"

(* The outcome of reading an Order through a null pointer: the read faults *)
(* and the call does not return.                                            *)
UB_FAULT == "fault"
NullReadOutcomes == {UB_FAULT}

------------------------------------------------------------------------------
(* Orders of a vehicle. *)

GetNumOrders(v) == Len(v.orders)

\* Vehicle::GetOrder(index): the order, or NULL when there is none.
GetOrder(v, index) == IF index >= 0 /\ index < GetNumOrders(v) THEN index ELSE NULL

\* What a read of *order yields, for an order that is not NULL.
OrderAt(v, order) == v.orders[order + 1]

\* (order->next == NULL) ? v->GetFirstOrder() : order->next
NextOrder(v, order) ==
    IF order = NULL \/ order + 1 >= GetNumOrders(v) THEN 0 ELSE order + 1

\* The branch followed where it should be passed.
SkipBranchTarget_Taken(v, order) ==
    IF GetOrder(v, OrderAt(v, order).skip_to) = NULL
    THEN NextOrder(v, order)
    ELSE GetOrder(v, OrderAt(v, order).skip_to)

\* Lines 200, 343 and 579: the order a not-taken branch goes on with.
SkipBranchTarget(v, order) == NextOrder(v, order)

NoStop(o) ==
    \/ o.nonstop = ONSF_NO_STOP_AT_ANY_STATION
    \/ o.nonstop = ONSF_NO_STOP_AT_DESTINATION_STATION

IsDeparture(o, station) ==
    /\ o.type = OT_GOTO_STATION
    /\ o.dest = station
    /\ (o.load # OLFB_NO_LOAD \/ cfg.departure_show_all_stops)
    /\ o.wait # 0

IsVia(o, station) ==
    /\ o.type \in {OT_GOTO_STATION, OT_GOTO_WAYPOINT}
    /\ o.dest = station
    /\ NoStop(o)

IsArrival(o, station) ==
    /\ o.type = OT_GOTO_STATION
    /\ o.dest = station
    /\ (o.unload # OUFB_NO_UNLOAD \/ cfg.departure_show_all_stops)
    /\ o.wait # 0

\* The test of lines 219-221 and 603-605.
Qualifies(o) ==
    \/ cfg.type = D_DEPARTURE /\ IsDeparture(o, cfg.station)
    \/ cfg.type = D_DEPARTURE /\ cfg.show_vehicles_via /\ IsVia(o, cfg.station)
    \/ cfg.type = D_ARRIVAL /\ IsArrival(o, cfg.station)

\* A horizon one day too long.
max_date_OneDayMore == (cfg.max_departure_time + 1) * DAY_TICKS

\* Line 101.
max_date == cfg.max_departure_time * DAY_TICKS

\* if (status != D_CANCELLED) status = D_TRAVELLING;
Demote(status) == IF status # D_CANCELLED THEN D_TRAVELLING ELSE status

------------------------------------------------------------------------------
(* The candidate scan of one vehicle, lines 144-258. *)

ScanResult(found, crashed, order, start_date, status, trace) ==
    [found |-> found, crashed |-> crashed, order |-> order,
     start_date |-> start_date, status |-> status, trace |-> trace]

RECURSIVE ScanLoop(_, _, _, _, _, _, _)
RECURSIVE ScanTail(_, _, _, _, _, _, _)

\* Lines 206-257: the part of the loop body after the conditional switch.
ScanTail(v, ub, order, start_date, status, n, trace) ==
    LET o == OrderAt(v, order) IN
    IF order = NULL /\ ub = UB_FAULT
    THEN ScanResult(FALSE, TRUE, order, start_date, status, trace)
    ELSE IF o.type = OT_IMPLICIT
    THEN ScanLoop(v, ub, NextOrder(v, order), start_date, status, n - 1, trace)
    ELSE IF o.travel = 0 /\ ~o.timetabled
    THEN ScanResult(FALSE, FALSE, order, start_date, status, trace)
    ELSE IF Qualifies(o)
    THEN IF start_date < 0 /\ status = D_CANCELLED
         THEN ScanResult(FALSE, FALSE, order, start_date, status, trace)
         ELSE ScanResult(TRUE, FALSE, order, start_date, status, trace)
    ELSE ScanLoop(v, ub, NextOrder(v, order), start_date, Demote(status), n - 1, trace)

\* One pass of the for loop in which a taken branch subtracts the travel
\* time of the conditional order, not that of the order branched to.
ScanLoop_SubtractSkipped(v, ub, order, start_date0, status, n, trace0) ==
    IF n <= 0 THEN ScanResult(FALSE, FALSE, order, start_date0, status, trace0)
    ELSE
    LET o == OrderAt(v, order)
        start_date == start_date0 + o.travel + o.wait
        trace == Append(trace0, order)
    IN
    IF start_date - v.lateness_counter > max_date
    THEN ScanResult(FALSE, FALSE, order, start_date, status, trace)
    ELSE IF o.type = OT_CONDITIONAL /\ cfg.departure_conditionals = 1
    THEN LET target == GetOrder(v, o.skip_to) IN
         IF target = NULL
         THEN ScanTail(v, ub, NULL, start_date, Demote(status), n, trace)
         ELSE ScanLoop(v, ub, target, start_date - o.travel,
                       Demote(status), n - 1, trace)
    ELSE IF o.type = OT_CONDITIONAL /\ cfg.departure_conditionals = 2
    THEN ScanLoop(v, ub, SkipBranchTarget(v, order), start_date, Demote(status), n - 1, trace)
    ELSE ScanTail(v, ub, order, start_date, status, n, trace)

\* Lines 166-204: one pass of the for loop, n passes left.
ScanLoop(v, ub, order, start_date0, status, n, trace0) ==
    IF n <= 0 THEN ScanResult(FALSE, FALSE, order, start_date0, status, trace0)
    ELSE
    LET o == OrderAt(v, order)
        start_date == start_date0 + o.travel + o.wait
        trace == Append(trace0, order)
    IN
    IF start_date - v.lateness_counter > max_date
    THEN ScanResult(FALSE, FALSE, order, start_date, status, trace)
    ELSE IF o.type = OT_CONDITIONAL /\ cfg.departure_conditionals = 1
    THEN LET target == GetOrder(v, o.skip_to) IN
         IF target = NULL
         THEN ScanTail(v, ub, NULL, start_date, Demote(status), n, trace)
         ELSE ScanLoop(v, ub, target, start_date - OrderAt(v, target).travel,
                       Demote(status), n - 1, trace)
    ELSE IF o.type = OT_CONDITIONAL /\ cfg.departure_conditionals = 2
    THEN ScanLoop(v, ub, SkipBranchTarget(v, order), start_date, Demote(status), n - 1, trace)
    ELSE ScanTail(v, ub, order, start_date, status, n, trace)

\* The start of the scan without the test of lines 154-156.
ScanStart_NeverCancelled(v) ==
    LET order == v.cur_implicit_order_index % GetNumOrders(v)
        start0 == cfg.date_fract - v.current_order_time
        loading == v.current_order = OT_LOADING
    IN [order |-> order,
        start_date |-> IF loading
                       THEN start0 - (OrderAt(v, order).travel
                                      + (IF v.lateness_counter < 0 THEN v.lateness_counter ELSE 0))
                       ELSE start0,
        status |-> IF loading THEN D_ARRIVED ELSE D_TRAVELLING]

\* Lines 144-162: where the scan of a vehicle starts.
ScanStart(v) ==
    LET order == v.cur_implicit_order_index % GetNumOrders(v)
        start0 == cfg.date_fract - v.current_order_time
        status0 == IF v.current_order = "depot_halt" THEN D_CANCELLED ELSE D_TRAVELLING
        loading == v.current_order = OT_LOADING
    IN [order |-> order,
        start_date |-> IF loading
                       THEN start0 - (OrderAt(v, order).travel
                                      + (IF v.lateness_counter < 0 THEN v.lateness_counter ELSE 0))
                       ELSE start0,
        status |-> IF loading THEN D_ARRIVED ELSE status0]

ScanVehicleOrders(v, ub) ==
    LET s == ScanStart(v) IN
    ScanLoop(v, ub, s.order, s.start_date, s.status, GetNumOrders(v), <<>>)

\* Lines 227-238: the OrderDate made for a vehicle whose scan found an order.
MakeOrderDate(vidx, v, r) ==
    [order |-> r.order, v |-> vidx,
     expected_date |-> IF v.lateness_counter < 0 /\ v.current_order # OT_LOADING
                       THEN r.start_date - v.lateness_counter
                       ELSE r.start_date,
     lateness |-> IF v.lateness_counter > 0 THEN v.lateness_counter ELSE 0,
     status |-> r.status]

------------------------------------------------------------------------------
(* CallAt and Departure (departures_type.h). *)

CallAt(station, scheduled_date) == [station |-> station, scheduled_date |-> scheduled_date]

\* CallAt::operator==: equality is by station id only.
CallAtEq(a, b) == a.station = b.station

\* CallAt::operator>=: the same station, both dates known, a not before b.
CallAtGE(a, b) ==
    /\ a.station = b.station
    /\ a.scheduled_date # 0
    /\ b.scheduled_date # 0
    /\ a.scheduled_date >= b.scheduled_date

\* A list in which no call is ever found.
Contains_Never(calling_at, c) == FALSE

\* SmallVector::Contains
Contains(calling_at, c) == \E k \in 1..Len(calling_at) : CallAtEq(calling_at[k], c)

CallingAtStations(d) == [k \in 1..Len(d.calling_at) |-> d.calling_at[k].station]

\* Departure::operator==: the same board row.
DepartureEq(a, b) ==
    /\ a.type = b.type
    /\ CallAtEq(a.terminus, b.terminus)
    /\ a.via = b.via
    /\ CallingAtStations(a) = CallingAtStations(b)
    /\ a.status = b.status

\* Lines 286-292: the Departure made of the least order.
NewDeparture(lo) ==
    [type |-> cfg.type,
     scheduled_date |-> cfg.date * DAY_TICKS + lo.expected_date - lo.lateness,
     lateness |-> lo.lateness,
     status |-> lo.status,
     vehicle |-> lo.v,
     order |-> lo.order,
     via |-> INVALID_STATION,
     terminus |-> CallAt(INVALID_STATION, 0),
     calling_at |-> <<>>]

------------------------------------------------------------------------------
(* The terminus walk of Departure mode, lines 310-420. *)

TermResult(found, crashed, d, trace) ==
    [found |-> found, crashed |-> crashed, d |-> d, trace |-> trace]

\* Lines 350-355: the board station is reached again by a stopping, unloading order.
ReachesStationAgain(o) ==
    /\ o.type = OT_GOTO_STATION
    /\ o.dest = cfg.station
    /\ (o.unload # OUFB_NO_UNLOAD \/ cfg.departure_show_all_stops)
    /\ ~NoStop(o)

\* A call also required to have a wait time, as a departure is.
NotCallingAt_ZeroWait(o) ==
    \/ (o.unload = OUFB_NO_UNLOAD /\ ~cfg.departure_show_all_stops)
    \/ o.type \notin {OT_GOTO_STATION, OT_IMPLICIT}
    \/ NoStop(o)
    \/ o.wait = 0

\* Implicit orders passed over as in the candidate scan.
NotCallingAt_SkipImplicit(o) ==
    \/ (o.unload = OUFB_NO_UNLOAD /\ ~cfg.departure_show_all_stops)
    \/ o.type # OT_GOTO_STATION
    \/ NoStop(o)

\* Lines 378-383: the order is not one the vehicle calls at.
NotCallingAt(o) ==
    \/ (o.unload = OUFB_NO_UNLOAD /\ ~cfg.departure_show_all_stops)
    \/ o.type \notin {OT_GOTO_STATION, OT_IMPLICIT}
    \/ NoStop(o)

\* Lines 369-373: the running date of the walk after the travel to order o.
TravelDate(scheduled_date, o) ==
    IF scheduled_date # 0 /\ (o.travel # 0 \/ o.timetabled)
    THEN scheduled_date + o.travel
    ELSE 0

RECURSIVE TerminusLoop(_, _, _, _, _, _, _, _, _)
RECURSIVE TerminusTail(_, _, _, _, _, _, _, _, _)

\* A loop body that sets the via station at every call at the station passed
\* last, whether the departure has a via station or not.
TerminusTail_ViaOverwritten(v, ub, target, order, c0, candidate_via0, d, n, trace) ==
    LET o == OrderAt(v, order)
        candidate_via == IF NoStop(o) /\ o.type = OT_GOTO_STATION
                         THEN o.dest ELSE candidate_via0
        c == CallAt(o.dest, TravelDate(c0.scheduled_date, o))
        waited == CallAt(c.station, c.scheduled_date + o.wait)
        d2 == IF o.type \in {OT_GOTO_STATION, OT_IMPLICIT} /\ ~NoStop(o)
              THEN [d EXCEPT !.via = IF candidate_via = o.dest THEN o.dest ELSE d.via,
                             !.terminus = c,
                             !.calling_at = Append(d.calling_at, c)]
              ELSE d
    IN
    IF order = NULL /\ ub = UB_FAULT
    THEN TermResult(FALSE, TRUE, d, trace)
    ELSE IF ReachesStationAgain(o)
    THEN TermResult(Len(d.calling_at) > 0, FALSE, d, trace)
    ELSE IF NotCallingAt(o)
    THEN TerminusLoop(v, ub, target, NextOrder(v, order), waited, candidate_via, d, n - 1, trace)
    ELSE IF Contains(d.calling_at, c)
    THEN TermResult(TRUE, FALSE, d, trace)
    ELSE IF o.type = OT_GOTO_STATION /\ o.unload = OUFB_UNLOAD
    THEN TermResult(Len(d2.calling_at) > 0, FALSE, d2, trace)
    ELSE TerminusLoop(v, ub, target, NextOrder(v, order), waited, candidate_via, d2, n - 1, trace)

\* Lines 349-419: the loop body after the conditional switch.
TerminusTail(v, ub, target, order, c0, candidate_via0, d, n, trace) ==
    LET o == OrderAt(v, order)
        candidate_via == IF NoStop(o) /\ o.type = OT_GOTO_STATION /\ d.via = INVALID_STATION
                         THEN o.dest ELSE candidate_via0
        c == CallAt(o.dest, TravelDate(c0.scheduled_date, o))
        waited == CallAt(c.station, c.scheduled_date + o.wait)
        d2 == IF o.type \in {OT_GOTO_STATION, OT_IMPLICIT} /\ ~NoStop(o)
              THEN [d EXCEPT !.via = IF d.via = INVALID_STATION /\ candidate_via = o.dest
                                     THEN o.dest ELSE d.via,
                             !.terminus = c,
                             !.calling_at = Append(d.calling_at, c)]
              ELSE d
    IN
    IF order = NULL /\ ub = UB_FAULT
    THEN TermResult(FALSE, TRUE, d, trace)
    ELSE IF ReachesStationAgain(o)
    THEN TermResult(Len(d.calling_at) > 0, FALSE, d, trace)
    ELSE IF NotCallingAt(o)
    THEN TerminusLoop(v, ub, target, NextOrder(v, order), waited, candidate_via, d, n - 1, trace)
    ELSE IF Contains(d.calling_at, c)
    THEN TermResult(TRUE, FALSE, d, trace)
    ELSE IF o.type = OT_GOTO_STATION /\ o.unload = OUFB_UNLOAD
    THEN TermResult(Len(d2.calling_at) > 0, FALSE, d2, trace)
    ELSE TerminusLoop(v, ub, target, NextOrder(v, order), waited, candidate_via, d2, n - 1, trace)

\* A walk that takes the return to the order of the departure for a
\* terminus even when the vehicle has called nowhere.
TerminusLoop_AlwaysFound(v, ub, target, order, c, candidate_via, d, n, trace0) ==
    IF n <= 0 THEN TermResult(FALSE, FALSE, d, trace0)
    ELSE
    LET o == OrderAt(v, order)
        trace == Append(trace0, order)
    IN
    IF order = target
    THEN TermResult(TRUE, FALSE, d, trace)
    ELSE IF o.type = OT_CONDITIONAL /\ cfg.departure_conditionals = 1
    THEN LET branch == GetOrder(v, o.skip_to) IN
         IF branch = NULL
         THEN TerminusTail(v, ub, target, NULL, c, candidate_via, d, n, trace)
         ELSE TerminusLoop(v, ub, target, branch, c, candidate_via, d, n - 1, trace)
    ELSE IF o.type = OT_CONDITIONAL /\ cfg.departure_conditionals = 2
    THEN TerminusLoop(v, ub, target, SkipBranchTarget(v, order), c, candidate_via, d, n - 1, trace)
    ELSE TerminusTail(v, ub, target, order, c, candidate_via, d, n, trace)

\* Lines 318-347: one pass of the for loop, n passes left.
TerminusLoop(v, ub, target, order, c, candidate_via, d, n, trace0) ==
    IF n <= 0 THEN TermResult(FALSE, FALSE, d, trace0)
    ELSE
    LET o == OrderAt(v, order)
        trace == Append(trace0, order)
    IN
    IF order = target
    THEN TermResult(Len(d.calling_at) > 0, FALSE, d, trace)
    ELSE IF o.type = OT_CONDITIONAL /\ cfg.departure_conditionals = 1
    THEN LET branch == GetOrder(v, o.skip_to) IN
         IF branch = NULL
         THEN TerminusTail(v, ub, target, NULL, c, candidate_via, d, n, trace)
         ELSE TerminusLoop(v, ub, target, branch, c, candidate_via, d, n - 1, trace)
    ELSE IF o.type = OT_CONDITIONAL /\ cfg.departure_conditionals = 2
    THEN TerminusLoop(v, ub, target, SkipBranchTarget(v, order), c, candidate_via, d, n - 1, trace)
    ELSE TerminusTail(v, ub, target, order, c, candidate_via, d, n, trace)

\* Lines 310-318: the walk starts at the order after the departure's order.
FindTerminus(v, ub, d) ==
    LET order == NextOrder(v, d.order) IN
    TerminusLoop(v, ub, d.order, order,
                 CallAt(OrderAt(v, order).dest, d.scheduled_date),
                 INVALID_STATION, d, GetNumOrders(v), <<>>)

------------------------------------------------------------------------------
(* The origin search of Arrival mode, lines 471-525. *)

\* Lines 477-481: a loading call somewhere else than the board station.
IsOriginCandidate(o) ==
    /\ (o.load # OLFB_NO_LOAD \/ cfg.departure_show_all_stops)
    /\ o.type \in {OT_GOTO_STATION, OT_IMPLICIT}
    /\ o.dest # cfg.station

RECURSIVE FoundCollision_IgnoreUnload(_, _, _, _)
\* A search for which an order that unloads all is no collision.
FoundCollision_IgnoreUnload(v, target, origin, o) ==
    IF o = target THEN FALSE
    ELSE LET oo == OrderAt(v, o) IN
         IF /\ oo.type \in {OT_GOTO_STATION, OT_IMPLICIT}
            /\ (oo.dest = OrderAt(v, origin).dest \/ oo.dest = cfg.station)
         THEN TRUE
         ELSE FoundCollision_IgnoreUnload(v, target, origin, NextOrder(v, o))

RECURSIVE FoundCollision(_, _, _, _)
\* Lines 486-501: walking from o to the target order meets a collision.
FoundCollision(v, target, origin, o) ==
    IF o = target THEN FALSE
    ELSE LET oo == OrderAt(v, o) IN
         IF oo.unload = OUFB_UNLOAD THEN TRUE
         ELSE IF /\ oo.type \in {OT_GOTO_STATION, OT_IMPLICIT}
                 /\ (oo.dest = OrderAt(v, origin).dest \/ oo.dest = cfg.station)
         THEN TRUE
         ELSE FoundCollision(v, target, origin, NextOrder(v, o))

RECURSIVE FindOrigin(_, _, _)
\* Lines 476-511: <<candidate_origin, found_origin>> when the search ends.
FindOrigin(v, target, candidate_origin) ==
    IF candidate_origin = target THEN <<candidate_origin, FALSE>>
    ELSE IF /\ IsOriginCandidate(OrderAt(v, candidate_origin))
            /\ ~FoundCollision(v, target, candidate_origin, NextOrder(v, candidate_origin))
    THEN <<candidate_origin, TRUE>>
    ELSE FindOrigin(v, target, NextOrder(v, candidate_origin))

RECURSIVE ArrivalCallingAt(_, _, _, _)
\* Lines 515-523: the loading station calls from order up to the target order.
ArrivalCallingAt(v, target, order, calling_at) ==
    IF order = target THEN calling_at
    ELSE LET o == OrderAt(v, order) IN
         ArrivalCallingAt(v, target, NextOrder(v, order),
             IF o.type = OT_GOTO_STATION /\ (o.load # OLFB_NO_LOAD \/ cfg.departure_show_all_stops)
             THEN Append(calling_at, CallAt(o.dest, 0))
             ELSE calling_at)

\* Lines 471-525: the arrival built from d, and whether its origin was found.
ResolveArrival(v, d) ==
    LET origin == FindOrigin(v, d.order, NextOrder(v, d.order))
        candidate_origin == origin[1]
    IN [found |-> origin[2],
        d |-> [d EXCEPT
                 !.scheduled_date = d.scheduled_date - OrderAt(v, d.order).wait,
                 !.calling_at = ArrivalCallingAt(v, d.order, NextOrder(v, candidate_origin), <<>>),
                 !.terminus = CallAt(OrderAt(v, candidate_origin).dest, 0)]]

------------------------------------------------------------------------------
(* Insertion into the result: merging and the smart terminus, lines 422-462 *)
(* and 527-541.                                                             *)

\* Lines 426-433 and 530-537: d equals a departure already in the list.
IsDuplicate(list, d) ==
    /\ cfg.departure_merge_identical
    /\ \E k \in 1..Len(list) : DepartureEq(d, list[k])

RECURSIVE ShortenTerminus(_, _, _, _)
\* Lines 442-452: the inner loop over d's calling_at, from j down to 1; k is
\* the (0-based, unsigned) index of the next shorter terminus of d_first.
ShortenTerminus(d_first, d, j, k) ==
    IF j = 0 THEN d_first
    ELSE IF /\ CallAtGE(d_first.terminus, d.calling_at[j])
            /\ Len(d_first.calling_at) >= 2
    THEN LET shorter == [d_first EXCEPT !.terminus = d_first.calling_at[k + 1]] IN
         IF k = 0 THEN shorter ELSE ShortenTerminus(shorter, d, j - 1, k - 1)
    ELSE ShortenTerminus(d_first, d, j - 1, k)

\* A pass that also cuts the calling-at list of an entry it shortens.
SmartTerminus_Truncating(list, d) ==
    IF cfg.departure_smart_terminus /\ cfg.type = D_DEPARTURE
    THEN [n \in 1..Len(list) |->
            LET e == ShortenTerminus(list[n], d, Len(d.calling_at),
                                     Len(list[n].calling_at) - 2)
            IN IF e.terminus = list[n].terminus THEN e
               ELSE [e EXCEPT !.calling_at = <<e.terminus>>]]
    ELSE list

\* Lines 438-454: the pass over the departures inserted before d.  (k is a uint:
\* Length() - 2 wraps for a list shorter than 2, a value line 445 never lets be read.)
SmartTerminus(list, d) ==
    IF cfg.departure_smart_terminus /\ cfg.type = D_DEPARTURE
    THEN [n \in 1..Len(list) |->
            ShortenTerminus(list[n], d, Len(d.calling_at), Len(list[n].calling_at) - 2)]
    ELSE list

\* Lines 458-461: a late vehicle is shown by its arrival time.
DisplayLateness(v, d) ==
    IF d.status # D_ARRIVED /\ d.lateness > 0
    THEN [d EXCEPT !.lateness = d.lateness - OrderAt(v, d.order).wait]
    ELSE d

\* Lines 422-462: the result list after a departure whose terminus was found.
InsertDeparture(list, v, d) ==
    IF IsDuplicate(list, d) THEN list
    ELSE Append(SmartTerminus(list, d), DisplayLateness(v, d))

\* Lines 527-541: the result list after an arrival whose origin was found.
InsertArrival(list, d) ==
    IF IsDuplicate(list, d) THEN list ELSE Append(list, d)

------------------------------------------------------------------------------
(* The advance of the least order to the vehicle's next call, lines 546-626. *)

AdvResult(found, crashed, order, expected_date, trace) ==
    [found |-> found, crashed |-> crashed, order |-> order,
     expected_date |-> expected_date, trace |-> trace]

RECURSIVE AdvanceLoop(_, _, _, _, _, _, _)
RECURSIVE AdvanceTail(_, _, _, _, _, _, _)

\* The loop body without the test of lines 593-595.
AdvanceTail_NoDataAccepted(v, ub, lateness, order, expected_date, n, trace) ==
    LET o == OrderAt(v, order)
        next == NextOrder(v, order)
    IN
    IF order = NULL /\ ub = UB_FAULT
    THEN AdvResult(FALSE, TRUE, order, expected_date, trace)
    ELSE IF o.type = OT_IMPLICIT
    THEN AdvanceLoop(v, ub, lateness, next, expected_date, n - 1, trace)
    ELSE IF expected_date - lateness > max_date
    THEN AdvResult(FALSE, FALSE, order, expected_date, trace)
    ELSE IF Qualifies(o)
    THEN AdvResult(TRUE, FALSE, order, expected_date, trace)
    ELSE AdvanceLoop(v, ub, lateness, next,
                     expected_date + OrderAt(v, next).travel + OrderAt(v, next).wait,
                     n - 1, trace)

\* Lines 586-612: the loop body after the conditional switch.
AdvanceTail(v, ub, lateness, order, expected_date, n, trace) ==
    LET o == OrderAt(v, order)
        next == NextOrder(v, order)
    IN
    IF order = NULL /\ ub = UB_FAULT
    THEN AdvResult(FALSE, TRUE, order, expected_date, trace)
    ELSE IF o.type = OT_IMPLICIT
    THEN AdvanceLoop(v, ub, lateness, next, expected_date, n - 1, trace)
    ELSE IF o.travel = 0 /\ ~o.timetabled
    THEN AdvResult(FALSE, FALSE, order, expected_date, trace)
    ELSE IF expected_date - lateness > max_date
    THEN AdvResult(FALSE, FALSE, order, expected_date, trace)
    ELSE IF Qualifies(o)
    THEN AdvResult(TRUE, FALSE, order, expected_date, trace)
    ELSE AdvanceLoop(v, ub, lateness, next,
                     expected_date + OrderAt(v, next).travel + OrderAt(v, next).wait,
                     n - 1, trace)

\* Lines 558-584: one pass of the for loop, n passes left.
AdvanceLoop(v, ub, lateness, order, expected_date, n, trace0) ==
    IF n <= 0 THEN AdvResult(FALSE, FALSE, order, expected_date, trace0)
    ELSE
    LET o == OrderAt(v, order)
        trace == Append(trace0, order)
    IN
    IF o.type = OT_CONDITIONAL /\ cfg.departure_conditionals = 1
    THEN LET branch == GetOrder(v, o.skip_to) IN
         IF branch = NULL
         THEN AdvanceTail(v, ub, lateness, NULL, expected_date, n, trace)
         ELSE AdvanceLoop(v, ub, lateness, branch,
                          expected_date + OrderAt(v, branch).wait, n - 1, trace)
    ELSE IF o.type = OT_CONDITIONAL /\ cfg.departure_conditionals = 2
    THEN LET next == SkipBranchTarget(v, order) IN
         AdvanceLoop(v, ub, lateness, next,
                     expected_date + OrderAt(v, next).travel + OrderAt(v, next).wait,
                     n - 1, trace)
    ELSE AdvanceTail(v, ub, lateness, order, expected_date, n, trace)

\* The walk started on the time of the next order alone, the date reached
\* so far left out.
FindNextOrder_NoElapse(v, ub, lo) ==
    LET order == NextOrder(v, lo.order) IN
    AdvanceLoop(v, ub, lo.lateness, order,
                OrderAt(v, order).travel + OrderAt(v, order).wait,
                GetNumOrders(v), <<>>)

\* Lines 552-553: the walk starts at the order after the one just used.
FindNextOrder(v, ub, lo) ==
    LET order == NextOrder(v, lo.order) IN
    AdvanceLoop(v, ub, lo.lateness, order,
                lo.expected_date + OrderAt(v, order).travel + OrderAt(v, order).wait,
                GetNumOrders(v), <<>>)

\* The OrderDate after the walk, left at the date the walk reached when the
\* walk found no order.
Advanced_KeepDate(lo, r) ==
    [lo EXCEPT !.order = IF r.found THEN r.order ELSE lo.order,
               !.expected_date = r.expected_date,
               !.status = IF lo.status = D_ARRIVED THEN D_TRAVELLING ELSE lo.status]

\* Lines 553, 573, 580 and 612: the OrderDate at a fault of the walk (line
\* 587). The date has been added to in place on the way; the order and the
\* status are written after the walk only (lines 606 and 623-625).
Faulted(lo, r) ==
    [lo EXCEPT !.expected_date = r.expected_date]

\* Lines 606 and 615-626: the OrderDate after the walk.
Advanced(lo, r) ==
    [lo EXCEPT !.order = IF r.found THEN r.order ELSE lo.order,
               !.expected_date = IF r.found THEN r.expected_date ELSE INT32_MAX,
               !.status = IF lo.status = D_ARRIVED THEN D_TRAVELLING ELSE lo.status]

------------------------------------------------------------------------------
(* The least order, lines 240-245 and 628-643. *)

\* expected_date - lateness - (type == D_ARRIVAL ? order->GetWaitTime() : 0)
SelectionKey(od) ==
    od.expected_date - od.lateness
      - (IF cfg.type = D_ARRIVAL THEN OrderAt(veh[od.v], od.order).wait ELSE 0)

\* Lines 241-245: the least order once od has been appended as the last one.
LeastAfterAppend(orders, least) ==
    IF least = 0 THEN Len(orders)
    ELSE IF SelectionKey(orders[least]) > SelectionKey(orders[Len(orders)])
    THEN Len(orders)
    ELSE least

\* The strict comparison of line 640 made non-strict: a candidate with the
\* same key replaces the least order.
Replaces_OnTies(orders, least, n) ==
    /\ SelectionKey(orders[least]) >= SelectionKey(orders[n])
    /\ orders[n].expected_date - orders[n].lateness < max_date

\* Line 640: od may replace the least order.
Replaces(orders, least, n) ==
    /\ SelectionKey(orders[least]) > SelectionKey(orders[n])
    /\ orders[n].expected_date - orders[n].lateness < max_date

RECURSIVE FindLeast(_, _, _)
\* Lines 629-643: the scan of next_orders from position n on.
FindLeast(orders, least, n) ==
    IF n > Len(orders) THEN least
    ELSE FindLeast(orders, IF Replaces(orders, least, n) THEN n ELSE least, n + 1)

------------------------------------------------------------------------------
(* The steps of MakeDepartureList. *)

NoWalk == [v |-> 0, scan |-> <<>>, term |-> <<>>, adv |-> <<>>]

\* GenerateVehicleSortList (line 119): the vehicles of one type, in list order.
RECURSIVE RosterFrom(_, _)
RosterFrom(t, n) ==
    IF n > Len(veh) THEN <<>>
    ELSE IF veh[n].type = t THEN <<n>> \o RosterFrom(t, n + 1)
    ELSE RosterFrom(t, n + 1)

Roster(t) == RosterFrom(t, 1)

\* The test of line 132 without the capacity of the part.
CarriesPassengers_AnyPart(v) ==
    \E k \in 1..Len(v.parts) : v.parts[k].passengers

\* Lines 128-137: some part with cargo capacity carries passengers.
CarriesPassengers(v) ==
    \E k \in 1..Len(v.parts) : v.parts[k].cargo_cap > 0 /\ v.parts[k].passengers

\* Lines 127-142: the cargo filter leaves the vehicle out.
FilteredOut(v) ==
    /\ cfg.show_pax # cfg.show_freight
    /\ CarriesPassengers(v) # cfg.show_pax

\* The size check of line 280 one entry too late.
StopLooking_OneMore ==
    \/ Len(result) > cfg.max_departures
    \/ next_orders[least_order].expected_date - next_orders[least_order].lateness > max_date

\* Lines 280-281: the loop can stop looking for departures.
StopLooking ==
    \/ Len(result) >= cfg.max_departures
    \/ next_orders[least_order].expected_date - next_orders[least_order].lateness > max_date

\* The start without the early return of line 95.
Start_NoEarlyReturn ==
    /\ pc = "start"
    /\ pc' = "lookup" /\ exit' = exit
    /\ UNCHANGED <<cfg, veh, ti, vi, next_orders, least_order, result, i, keys, walk>>
    /\ UNCHANGED <<earlier, hvars, svars>>

\* Lines 93-95.
Start ==
    /\ pc = "start"
    /\ IF ~cfg.show_pax /\ ~cfg.show_freight
       THEN pc' = "done" /\ exit' = "nofilter"
       ELSE pc' = "lookup" /\ exit' = exit
    /\ UNCHANGED <<cfg, veh, ti, vi, next_orders, least_order, result, i, keys, walk>>
    /\ UNCHANGED <<earlier, hvars, svars>>

\* A failed roster lookup passed over like a vehicle type that is not shown.
Lookup_SkipFailedRoster ==
    /\ pc = "lookup"
    /\ IF ti >= NumVehicleTypes
       THEN /\ IF Len(next_orders) = 0
               THEN pc' = "done" /\ exit' = "empty"
               ELSE pc' = "loop" /\ exit' = exit
            /\ UNCHANGED <<ti, vi>>
       ELSE IF ~cfg.show_vehicle_types[ti] \/ ~cfg.roster_ok[ti]
       THEN /\ ti' = ti + 1
            /\ UNCHANGED <<pc, vi, exit>>
       ELSE /\ pc' = "scan" /\ vi' = 1
            /\ UNCHANGED <<ti, exit>>
    /\ UNCHANGED <<cfg, veh, next_orders, least_order, result, i, keys, walk>>
    /\ UNCHANGED <<earlier, hvars, svars>>

\* Lines 110-122 and 262-269: the head of the loop over the vehicle types.
Lookup ==
    /\ pc = "lookup"
    /\ IF ti >= NumVehicleTypes
       THEN /\ IF Len(next_orders) = 0
               THEN pc' = "done" /\ exit' = "empty"
               ELSE pc' = "loop" /\ exit' = exit
            /\ UNCHANGED <<ti, vi>>
       ELSE IF ~cfg.show_vehicle_types[ti]
       THEN /\ ti' = ti + 1
            /\ UNCHANGED <<pc, vi, exit>>
       ELSE IF ~cfg.roster_ok[ti]
       THEN /\ pc' = "done" /\ exit' = "roster"
            /\ UNCHANGED <<ti, vi>>
       ELSE /\ pc' = "scan" /\ vi' = 1
            /\ UNCHANGED <<ti, exit>>
    /\ UNCHANGED <<cfg, veh, next_orders, least_order, result, i, keys, walk>>
    /\ UNCHANGED <<earlier, hvars, svars>>

\* The scan with the choice between candidates of equal key left open.
ScanVehicle_TiesEitherWay ==
    /\ pc = "scan"
    /\ \E ub \in NullReadOutcomes :
         LET roster == Roster(ti) IN
         IF vi > Len(roster)
         THEN /\ pc' = "lookup" /\ ti' = ti + 1
              /\ UNCHANGED <<vi, next_orders, least_order, walk>>
         ELSE LET vidx == roster[vi]
                  v == veh[vidx]
                  r == ScanVehicleOrders(v, ub)
                  appended == Append(next_orders, MakeOrderDate(vidx, v, r))
              IN
              IF FilteredOut(v) \/ v.stopped_in_depot
              THEN /\ vi' = vi + 1
                   /\ UNCHANGED <<pc, ti, next_orders, least_order, walk>>
              ELSE /\ walk' = [NoWalk EXCEPT !.v = vidx, !.scan = r.trace]
                   /\ IF r.crashed
                      THEN /\ pc' = "crashed"
                           /\ UNCHANGED <<ti, vi, next_orders, least_order>>
                      ELSE /\ vi' = vi + 1
                           /\ UNCHANGED <<pc, ti>>
                           /\ IF r.found
                              THEN /\ next_orders' = appended
                                   /\ \E n \in 1..Len(appended) :
                                         /\ \A m \in 1..Len(appended) :
                                               SelectionKey(appended[n]) <= SelectionKey(appended[m])
                                         /\ least_order' = n
                              ELSE UNCHANGED <<next_orders, least_order>>
    /\ UNCHANGED <<cfg, veh, result, i, keys, exit>>
    /\ UNCHANGED <<earlier, hvars, svars>>

\* Lines 126-259: one pass of the loop over the vehicles of a type.
ScanVehicle ==
    /\ pc = "scan"
    /\ \E ub \in NullReadOutcomes :
         LET roster == Roster(ti) IN
         IF vi > Len(roster)
         THEN /\ pc' = "lookup" /\ ti' = ti + 1
              /\ UNCHANGED <<vi, next_orders, least_order, walk>>
         ELSE LET vidx == roster[vi]
                  v == veh[vidx]
                  r == ScanVehicleOrders(v, ub)
                  appended == Append(next_orders, MakeOrderDate(vidx, v, r))
              IN
              IF FilteredOut(v) \/ v.stopped_in_depot
              THEN /\ vi' = vi + 1
                   /\ UNCHANGED <<pc, ti, next_orders, least_order, walk>>
              ELSE /\ walk' = [NoWalk EXCEPT !.v = vidx, !.scan = r.trace]
                   /\ IF r.crashed
                      THEN /\ pc' = "crashed"
                           /\ UNCHANGED <<ti, vi, next_orders, least_order>>
                      ELSE /\ vi' = vi + 1
                           /\ UNCHANGED <<pc, ti>>
                           /\ IF r.found
                              THEN /\ next_orders' = appended
                                   /\ least_order' = LeastAfterAppend(appended, least_order)
                              ELSE UNCHANGED <<next_orders, least_order>>
    /\ UNCHANGED <<cfg, veh, result, i, keys, exit>>
    /\ UNCHANGED <<earlier, hvars, svars>>

\* Lines 269-644: one pass of the main loop.
Iterate ==
    /\ pc = "loop"
    /\ i > 0
    /\ ~StopLooking
    /\ \E ub \in NullReadOutcomes :
         LET lo == next_orders[least_order]
             v == veh[lo.v]
             d == NewDeparture(lo)
             t == FindTerminus(v, ub, d)
             a == ResolveArrival(v, d)
             inserted == IF cfg.type = D_DEPARTURE
                         THEN IF t.found THEN InsertDeparture(result, v, t.d) ELSE result
                         ELSE IF a.found THEN InsertArrival(result, a.d) ELSE result
             r == FindNextOrder(v, ub, lo)
             orders == [next_orders EXCEPT ![least_order] = Advanced(lo, r)]
         IN
         IF cfg.type = D_DEPARTURE /\ t.crashed
         THEN /\ pc' = "crashed"
              /\ walk' = [NoWalk EXCEPT !.v = lo.v, !.term = t.trace]
              /\ UNCHANGED <<next_orders, least_order, result, i, keys>>
         ELSE /\ walk' = [NoWalk EXCEPT !.v = lo.v,
                                        !.term = IF cfg.type = D_DEPARTURE THEN t.trace ELSE <<>>,
                                        !.adv = r.trace]
              /\ result' = inserted
              /\ keys' = IF Len(inserted) > Len(result)
                         THEN Append(keys, SelectionKey(lo)) ELSE keys
              /\ IF r.crashed
                 THEN /\ pc' = "crashed"
                      /\ next_orders' = [next_orders EXCEPT ![least_order] = Faulted(lo, r)]
                      /\ UNCHANGED <<least_order, i>>
                 ELSE /\ next_orders' = orders
                      /\ least_order' = FindLeast(orders, least_order, 1)
                      /\ i' = i - 1
                      /\ pc' = pc
    /\ UNCHANGED <<cfg, veh, ti, vi, exit>>
    /\ UNCHANGED <<earlier, hvars, svars>>

\* Lines 269, 280-283 and 646-647: the loop ends and the list is returned.
Return ==
    /\ pc = "loop"
    /\ (i <= 0 \/ StopLooking)
    /\ pc' = "done"
    /\ exit' = IF i <= 0 THEN "cap"
               ELSE IF Len(result) >= cfg.max_departures THEN "size"
               ELSE "horizon"
    /\ UNCHANGED <<cfg, veh, ti, vi, next_orders, least_order, result, i, keys, walk>>
    /\ UNCHANGED <<earlier, hvars, svars>>

Next == Start \/ Lookup \/ ScanVehicle \/ Iterate \/ Return

\* A further invocation with the same arguments, settings and snapshot, once
\* the function has returned: what it returned is kept and the locals of
\* lines 93-107 and 269 start afresh.
Reinvoke ==
    /\ pc = "done"
    /\ earlier = <<>>
    /\ earlier' = Append(earlier, result)
    /\ pc' = "start"
    /\ ti' = 0
    /\ vi' = 0
    /\ next_orders' = <<>>
    /\ least_order' = 0
    /\ result' = <<>>
    /\ i' = LoopCap
    /\ keys' = <<>>
    /\ walk' = NoWalk
    /\ exit' = "none"
    /\ UNCHANGED <<cfg, veh>>
    /\ UNCHANGED <<hvars, svars>>

NextTwice == Start \/ Lookup \/ ScanVehicle \/ Iterate \/ Return \/ Reinvoke

------------------------------------------------------------------------------
(* The snapshots and settings the model is checked over. *)

\* Bounds of the model.
MaxOrders == 3
MaxVehicles == 2
MaxDepartures == 2
MaxDays == 1

Order(type, dest, load, unload, nonstop, wait, travel, timetabled, skip_to) ==
    [type |-> type, dest |-> dest, load |-> load, unload |-> unload,
     nonstop |-> nonstop, wait |-> wait, travel |-> travel,
     timetabled |-> timetabled, skip_to |-> skip_to]

\* A timetabled call at a station.
Stop(dest, wait, travel) ==
    Order(OT_GOTO_STATION, dest, OLF_LOAD_IF_POSSIBLE, OUF_UNLOAD_IF_POSSIBLE,
          ONSF_STOP_EVERYWHERE, wait, travel, TRUE, 0)

\* A station passed without stopping.
Pass(dest, wait, travel) ==
    Order(OT_GOTO_STATION, dest, OLF_LOAD_IF_POSSIBLE, OUF_UNLOAD_IF_POSSIBLE,
          ONSF_NO_STOP_AT_DESTINATION_STATION, wait, travel, TRUE, 0)

\* A call at which the vehicle does not load.
NoLoad(dest) ==
    Order(OT_GOTO_STATION, dest, OLFB_NO_LOAD, OUF_UNLOAD_IF_POSSIBLE,
          ONSF_STOP_EVERYWHERE, 10, 20, TRUE, 0)

\* A call at which the vehicle unloads all.
Unload(dest) ==
    Order(OT_GOTO_STATION, dest, OLF_LOAD_IF_POSSIBLE, OUFB_UNLOAD,
          ONSF_STOP_EVERYWHERE, 10, 20, TRUE, 0)

Conditional(skip_to, travel, timetabled) ==
    Order(OT_CONDITIONAL, 0, OLF_LOAD_IF_POSSIBLE, OUF_UNLOAD_IF_POSSIBLE,
          ONSF_STOP_EVERYWHERE, 0, travel, timetabled, skip_to)

Implicit(dest) ==
    Order(OT_IMPLICIT, dest, OLF_LOAD_IF_POSSIBLE, OUF_UNLOAD_IF_POSSIBLE,
          ONSF_STOP_EVERYWHERE, 0, 0, FALSE, 0)

\* A call whose travel time is not known.
Untimed(dest, wait) ==
    Order(OT_GOTO_STATION, dest, OLF_LOAD_IF_POSSIBLE, OUF_UNLOAD_IF_POSSIBLE,
          ONSF_STOP_EVERYWHERE, wait, 0, FALSE, 0)

Vehicle(type, orders, current_order, lateness_counter, current_order_time) ==
    [type |-> type, orders |-> orders, cur_implicit_order_index |-> 0,
     current_order |-> current_order, lateness_counter |-> lateness_counter,
     current_order_time |-> current_order_time, stopped_in_depot |-> FALSE,
     parts |-> <<[cargo_cap |-> 1, passengers |-> TRUE]>>]

\* The settings every family starts from: station 1, all vehicle types shown.
BaseConfig ==
    [station |-> 1,
     show_vehicle_types |-> [t \in 0..(NumVehicleTypes - 1) |-> TRUE],
     roster_ok |-> [t \in 0..(NumVehicleTypes - 1) |-> TRUE],
     type |-> D_DEPARTURE, show_vehicles_via |-> FALSE,
     show_pax |-> TRUE, show_freight |-> TRUE,
     max_departure_time |-> MaxDays, max_departures |-> MaxDepartures,
     departure_conditionals |-> 0, departure_show_all_stops |-> FALSE,
     departure_merge_identical |-> FALSE, departure_smart_terminus |-> FALSE,
     date |-> 1, date_fract |-> 0]

OrderLists(pool, n) == UNION {[1..m -> pool] : m \in 1..n}

\* Calls and the orders the walks treat specially.
MixedOrders ==
    {Stop(1, 10, 20), Stop(2, 10, 20), Implicit(3), Untimed(2, 10), Pass(1, 0, 20)}
    \cup {Conditional(0, 0, FALSE), Conditional(MaxOrders - 1, 20, TRUE)}

PlainOrders == {Stop(1, 10, 20), Stop(2, 10, 20), Stop(3, 0, 20)}

\* One vehicle on every list of mixed orders, under every policy and mode.
InitMixed ==
    /\ veh \in {<<Vehicle(0, l, "other", 0, 0)>> : l \in OrderLists(MixedOrders, MaxOrders)}
    /\ cfg \in {[BaseConfig EXCEPT !.type = m, !.departure_conditionals = p] :
                  m \in {D_DEPARTURE, D_ARRIVAL}, p \in 0..2}

\* One vehicle passing the station without stopping, vias shown.
InitVia ==
    /\ veh \in {<<Vehicle(0, l, "other", 0, 0)>> :
                  l \in OrderLists({Pass(1, 0, 20), Stop(2, 10, 20),
                                    Conditional(0, 0, FALSE)}, 2)}
    /\ cfg \in {[BaseConfig EXCEPT !.show_vehicles_via = TRUE,
                                   !.departure_conditionals = p] : p \in 0..2}

\* One vehicle in every state, on plain lists, under every limit.
InitStates ==
    /\ veh \in {<<Vehicle(0, l, co, late, cot)>> :
                  l \in OrderLists(PlainOrders, MaxOrders - 1),
                  co \in {"other", OT_LOADING, "depot_halt"},
                  late \in {-5, 0, 5}, cot \in {0, 25, 40}}
    /\ cfg \in {[BaseConfig EXCEPT !.type = m, !.max_departures = n,
                                   !.max_departure_time = days] :
                  m \in {D_DEPARTURE, D_ARRIVAL}, n \in 0..MaxDepartures,
                  days \in 0..MaxDays}

\* The vehicles of the fleets: two vehicle types, on short lists.
FleetVehicles ==
    {Vehicle(t, l, "other", 0, cot) :
       t \in 0..1, cot \in {0, 25},
       l \in {<<Stop(1, 10, 20), Stop(2, 10, 20)>>,
              <<Stop(2, 10, 20), Stop(1, 10, 20)>>,
              <<Stop(1, 10, 20), Conditional(0, 0, FALSE), Stop(2, 10, 20)>>,
              <<Implicit(3), Stop(1, 10, 20), Stop(3, 10, 20)>>}}

\* Several vehicles at the station.
InitFleet ==
    /\ veh \in UNION {[1..n -> FleetVehicles] : n \in 2..MaxVehicles}
    /\ cfg \in {[BaseConfig EXCEPT !.type = m, !.departure_conditionals = p] :
                  m \in {D_DEPARTURE, D_ARRIVAL}, p \in 1..2}

\* The order lists of the merged boards: two routes to station 3 through
\* station 2 whose calls cross, and a shuttle two vehicles can share.
MergeLists ==
    {<<Stop(1, 10, 5), Stop(2, 0, 5), Stop(3, 0, 20)>>,
     <<Stop(2, 0, 20), Stop(1, 10, 5), Stop(3, 0, 5)>>,
     <<Stop(1, 10, 20), Stop(2, 10, 20)>>}

\* Two vehicles over two rounds of their lists, with and without merging of
\* identical departures and the smart terminus.
InitMerge ==
    /\ veh \in {<<Vehicle(0, a, "other", 0, 0), Vehicle(0, b, "other", 0, 0)>> :
                  a \in MergeLists, b \in MergeLists}
    /\ cfg \in {[BaseConfig EXCEPT !.type = m,
                                   !.departure_merge_identical = merge,
                                   !.departure_smart_terminus = smart,
                                   !.max_departures = MaxDepartures + 3,
                                   !.max_departure_time = MaxDays + 1] :
                  m \in {D_DEPARTURE, D_ARRIVAL}, merge \in BOOLEAN, smart \in BOOLEAN}

\* Two vehicles of one or two types, every choice of the vehicle types shown
\* and of the roster lookups that succeed.
InitRoster ==
    /\ veh \in {<<Vehicle(0, l, "other", 0, 0), Vehicle(t, l, "other", 0, 25)>> :
                  t \in 0..1,
                  l \in {<<Stop(1, 10, 20), Stop(2, 10, 20)>>,
                         <<Stop(2, 10, 20), Stop(1, 10, 20)>>}}
    /\ cfg \in {[BaseConfig EXCEPT !.show_vehicle_types = shown, !.roster_ok = ok] :
                  shown \in [0..(NumVehicleTypes - 1) -> BOOLEAN],
                  ok \in [0..(NumVehicleTypes - 1) -> BOOLEAN]}

\* One vehicle on the round A (station 2), B (station 1, wait 10), C (station
\* 3, wait 5), seen from B over a horizon of more than one round.
InitRound ==
    /\ veh \in {<<Vehicle(0, <<Stop(2, w, 20), Stop(1, 10, 20), Stop(3, 5, 20)>>,
                           "other", 0, 0)>> : w \in {0, 10}}
    /\ cfg \in {[BaseConfig EXCEPT !.max_departures = n,
                                   !.max_departure_time = MaxDays + 2] :
                  n \in 1..(MaxDepartures + 1)}

\* The parts of a vehicle: a coach, a wagon, an engine of passenger cargo
\* type with no capacity, alone and in front of a wagon, and a mixed train.
PartLists ==
    {<<[cargo_cap |-> 1, passengers |-> TRUE]>>,
     <<[cargo_cap |-> 1, passengers |-> FALSE]>>,
     <<[cargo_cap |-> 0, passengers |-> TRUE]>>,
     <<[cargo_cap |-> 0, passengers |-> TRUE], [cargo_cap |-> 1, passengers |-> FALSE]>>,
     <<[cargo_cap |-> 1, passengers |-> FALSE], [cargo_cap |-> 1, passengers |-> TRUE]>>}

\* Two vehicles of every make, under every choice of the two cargo flags.
InitCargo ==
    /\ veh \in {<<[Vehicle(0, <<Stop(1, 10, 20), Stop(2, 10, 20)>>, "other", 0, 0)
                      EXCEPT !.parts = p],
                   [Vehicle(0, <<Stop(2, 10, 20), Stop(1, 10, 20)>>, "other", 0, 0)
                      EXCEPT !.parts = q]>> : p \in PartLists, q \in PartLists}
    /\ cfg \in {[BaseConfig EXCEPT !.show_pax = pax, !.show_freight = freight] :
                  pax \in BOOLEAN, freight \in BOOLEAN}

\* Two vehicles on the same round, one of them due at the board station on
\* the last tick of the horizon.
InitBoundary ==
    /\ veh \in {<<Vehicle(0, <<Stop(1, 10, 20), Stop(2, 10, 20)>>, "other", 0, a),
                   Vehicle(0, <<Stop(1, 10, 20), Stop(2, 10, 20)>>, "other", 0, b)>> :
                  a \in {16, 30, 35}, b \in {16, 30, 35}}
    /\ cfg \in {[BaseConfig EXCEPT !.type = m, !.max_departure_time = days,
                                   !.max_departures = MaxDepartures + 2] :
                  m \in {D_DEPARTURE, D_ARRIVAL}, days \in 0..MaxDays}

\* A conditional order with a wait time.
Branch(skip_to, wait, travel) ==
    Order(OT_CONDITIONAL, 0, OLF_LOAD_IF_POSSIBLE, OUF_UNLOAD_IF_POSSIBLE,
          ONSF_STOP_EVERYWHERE, wait, travel, TRUE, skip_to)

\* One vehicle whose scan meets a conditional order, first or after a call
\* elsewhere, that branches to a call at the board station; the travel and
\* wait times of the two orders differ.
InitBranch ==
    /\ veh \in {<<Vehicle(0, l, "other", 0, cot)>> :
                  cot \in {0, 25},
                  l \in UNION {{<<Branch(2, cw, ct), Stop(2, 10, 20), Stop(1, 10, tt)>>,
                                <<Stop(2, 10, 20), Branch(2, cw, ct), Stop(1, 10, tt)>>} :
                               cw \in {0, 3}, ct \in {5, 20}, tt \in {20, 30}}}
    /\ cfg \in {[BaseConfig EXCEPT !.type = m, !.departure_conditionals = p] :
                  m \in {D_DEPARTURE, D_ARRIVAL}, p \in 1..2}

\* One vehicle, loading or under way, whose current order is any order of a
\* list with an implicit order: it loads at the station of that order.
InitLoading ==
    /\ veh \in {<<[Vehicle(0, l, co, 0, cot) EXCEPT !.cur_implicit_order_index = cur]>> :
                  l \in {<<Implicit(3), Stop(1, 10, 20), Stop(2, 10, 20)>>,
                         <<Stop(1, 10, 20), Implicit(3), Stop(2, 10, 20)>>,
                         <<Stop(2, 10, 20), Stop(1, 10, 20)>>},
                  co \in {"other", OT_LOADING}, cot \in {0, 5},
                  cur \in 0..(MaxOrders - 1)}
    /\ cfg \in {[BaseConfig EXCEPT !.type = m, !.max_departure_time = MaxDays + 1,
                                   !.max_departures = MaxDepartures + 1] :
                  m \in {D_DEPARTURE, D_ARRIVAL}}

\* One vehicle on every list of timetabled calls, calls with no travel time
\* known, with and without a wait time, at the board station and elsewhere,
\* and implicit orders.
InitUntimed ==
    /\ veh \in {<<Vehicle(0, l, "other", 0, 0)>> :
                  l \in [1..MaxOrders -> {Stop(1, 10, 20), Stop(3, 10, 20), Untimed(1, 10),
                                          Untimed(1, 0), Untimed(2, 10), Untimed(2, 0),
                                          Implicit(2)}]}
    /\ cfg \in {[BaseConfig EXCEPT !.departure_smart_terminus = smart] : smart \in BOOLEAN}

\* A stopping service from station 1 over 2 and 3 to 4, an express to 3 and
\* 4 and a shuttle to 2, leaving station 1 on the same tick.
ShortenLists ==
    {<<Stop(1, 10, 20), Stop(2, 10, 20), Stop(3, 10, 20), Stop(4, 10, 20)>>,
     <<Stop(1, 10, 20), Stop(3, 10, 20), Stop(4, 10, 20)>>,
     <<Stop(1, 10, 20), Stop(2, 10, 20)>>}

\* Three vehicles on these services, with and without the smart terminus.
InitShorten ==
    /\ veh \in {<<Vehicle(0, a, "other", 0, 0), Vehicle(0, b, "other", 0, 0),
                   Vehicle(0, c, "other", 0, 0)>> :
                  a \in ShortenLists, b \in ShortenLists, c \in ShortenLists}
    /\ cfg \in {[BaseConfig EXCEPT !.departure_smart_terminus = smart,
                                   !.max_departures = MaxDepartures + 2] :
                  smart \in BOOLEAN}

\* The arrivals of one vehicle at station 1 on every list of calls with and
\* without loading, with a short and a long wait at station 1, calls that
\* unload all and implicit orders.
InitArrival ==
    /\ veh \in {<<Vehicle(0, l, "other", 0, 0)>> :
                  l \in OrderLists({Stop(1, 10, 20), Stop(1, 40, 20), Stop(2, 10, 20),
                                    Stop(3, 10, 20), NoLoad(2), Unload(3), Implicit(2)}, MaxOrders)}
    /\ cfg \in {[BaseConfig EXCEPT !.type = D_ARRIVAL, !.departure_show_all_stops = all] :
                  all \in BOOLEAN}

\* The order lists of the boards with unequal waits: calls at station 1 that
\* wait 10 and 40 ticks, after a call elsewhere, after each other and after
\* an implicit order.
WaitLists ==
    {<<Stop(1, 10, 20), Implicit(3), Stop(1, 40, 20)>>,
     <<Stop(1, 10, 20), Stop(3, 10, 20), Stop(1, 40, 20)>>,
     <<Stop(2, 10, 20), Stop(1, 10, 20)>>,
     <<Stop(2, 10, 20), Stop(1, 40, 20)>>,
     <<Stop(2, 10, 20), Stop(1, 40, 20), Stop(1, 10, 20)>>}

\* Two vehicles on these lists, on their way for 0 or 40 ticks, in both
\* modes.
InitWaits ==
    /\ veh \in {<<Vehicle(0, a, "other", 0, 0), Vehicle(0, b, "other", 0, cot)>> :
                  a \in WaitLists, b \in WaitLists, cot \in {0, 40}}
    /\ cfg \in {[BaseConfig EXCEPT !.type = m] : m \in {D_DEPARTURE, D_ARRIVAL}}

\* One vehicle that passes stations without stopping and calls at them, in
\* every order on short lists and on three longer rounds.
InitViaCall ==
    /\ veh \in {<<Vehicle(0, l, "other", 0, 0)>> :
                  l \in OrderLists({Stop(1, 10, 20), Pass(2, 0, 20), Stop(2, 10, 20),
                                    Pass(3, 0, 20), Stop(3, 10, 20)}, MaxOrders)
                        \cup {<<Stop(1, 10, 20), Pass(2, 0, 20), Stop(2, 10, 20),
                                 Pass(3, 0, 20), Stop(3, 10, 20)>>,
                               <<Stop(1, 10, 20), Pass(2, 0, 20), Pass(3, 0, 20),
                                 Stop(2, 10, 20), Stop(3, 10, 20)>>,
                               <<Stop(1, 10, 20), Pass(2, 0, 20), Stop(3, 10, 20),
                                 Stop(2, 10, 20)>>}}
    /\ cfg \in {[BaseConfig EXCEPT !.departure_smart_terminus = smart] : smart \in BOOLEAN}

\* Fleets of every size at either station and in both modes, with neither
\* passengers nor freight asked for.
InitNoFilter ==
    /\ veh \in UNION {[1..n -> FleetVehicles] : n \in 1..MaxVehicles}
    /\ cfg \in {[BaseConfig EXCEPT !.show_pax = FALSE, !.show_freight = FALSE,
                                   !.type = m, !.station = s] :
                  m \in {D_DEPARTURE, D_ARRIVAL}, s \in 1..2}

------------------------------------------------------------------------------
(* UpdateHousesAndTowns and CheckMultiTileHouseTypes                        *)
(* (src/src/saveload/town_sl.cpp).                                          *)
(*                                                                          *)
(* The map is MapSizeX by MapSizeY tiles, tile (x, y) having the index      *)
(* y * MapSizeX + x; its outermost tiles are MP_VOID, as on every map of    *)
(* the game, so that a house tile's neighbours are tiles of the map.  A     *)
(* tile is a record of its type and, for a house tile, its stored HouseID.  *)

MapSizeX == 4
MapSizeY == 4

(* The house tiles a map starts with: the tiles of the largest house.       *)
MaxHouseTiles == 2 * 2

MapSize == MapSizeX * MapSizeY

MP_CLEAR == "MP_CLEAR"
MP_HOUSE == "MP_HOUSE"
MP_VOID == "MP_VOID"

INVALID_HOUSE_ID == 65535

TILE_SIZE_1x1 == "TILE_SIZE_1x1"
TILE_SIZE_2x1 == "TILE_SIZE_2x1"
TILE_SIZE_1x2 == "TILE_SIZE_1x2"
TILE_SIZE_2x2 == "TILE_SIZE_2x2"
BUILDING_2_TILES_Y == {TILE_SIZE_1x2, TILE_SIZE_2x2}
BUILDING_HAS_4_TILES == {TILE_SIZE_2x2}

TileX(x) == x % MapSizeX
TileY(x) == x \div MapSizeX
TileDiffXY(x, y) == y * MapSizeX + x

IsBorderTile(x) ==
    TileX(x) = 0 \/ TileX(x) = MapSizeX - 1 \/ TileY(x) = 0 \/ TileY(x) = MapSizeY - 1

InnerTiles == {x \in 0..(MapSize - 1) : ~IsBorderTile(x)}

ClearTile == [type |-> MP_CLEAR, house |-> 0]
VoidTile == [type |-> MP_VOID, house |-> 0]
HouseTile(id) == [type |-> MP_HOUSE, house |-> id]

(* The loaded house specs: houses 0..2 are single tiles, 3 is a 2x1 house   *)
(* with its part 4, 5 a 1x2 house with its part 6, 7 a 2x2 house with its   *)
(* parts 8, 9 and 10, and 11 is a single-tile house that overrides house 3. *)
HouseSpec(id) ==
    [building_flags |-> CASE id \in {0, 1, 2, 11} -> {TILE_SIZE_1x1}
                          [] id = 3 -> {TILE_SIZE_2x1}
                          [] id = 5 -> {TILE_SIZE_1x2}
                          [] id = 7 -> {TILE_SIZE_2x2}
                          [] OTHER -> {},
     override |-> IF id = 3 THEN 11 ELSE INVALID_HOUSE_ID]

StoredHouseIDs == {0, 3, 4, 5, 6, 7, 8, 9, 10}

IsTileType(mp, x, type) == mp[x].type = type

DoClearSquare(mp, x) == [mp EXCEPT ![x] = ClearTile]

GetTranslatedHouseID(hid) ==
    IF HouseSpec(hid).override = INVALID_HOUSE_ID THEN hid ELSE HouseSpec(hid).override

SLGetCleanHouseType(mp, x) == mp[x].house

get_clean_house_type(mp, tr, x) ==
    LET type == SLGetCleanHouseType(mp, x)
    IN  IF tr THEN GetTranslatedHouseID(type) ELSE type

(* The offset to the north tile of the house, and the HouseID of that tile. *)
GetHouseNorthPart(house) ==
    IF house >= 3
    THEN IF HouseSpec(house - 1).building_flags \cap {TILE_SIZE_2x1} # {}
         THEN [diff |-> TileDiffXY(-1, 0), house |-> house - 1]
         ELSE IF HouseSpec(house - 1).building_flags \cap BUILDING_2_TILES_Y # {}
         THEN [diff |-> TileDiffXY(0, -1), house |-> house - 1]
         ELSE IF HouseSpec(house - 2).building_flags \cap BUILDING_HAS_4_TILES # {}
         THEN [diff |-> TileDiffXY(-1, 0), house |-> house - 2]
         ELSE IF HouseSpec(house - 3).building_flags \cap BUILDING_HAS_4_TILES # {}
         THEN [diff |-> TileDiffXY(-1, -1), house |-> house - 3]
         ELSE [diff |-> 0, house |-> house]
    ELSE [diff |-> 0, house |-> house]

(* The test of lines 82, 85, 88, 90, 92 and 101: the tile is no house tile, *)
(* or not of the type wanted.                                               *)
PartMissing(mp, tr, tile, want) ==
    ~IsTileType(mp, tile, MP_HOUSE) \/ get_clean_house_type(mp, tr, tile) # want

(* valid_house of lines 79-93 for the north tile x of a house of house_type. *)
ValidHouse(mp, tr, x, house_type) ==
    LET flags == HouseSpec(house_type).building_flags
    IN  IF TILE_SIZE_2x1 \in flags
        THEN ~PartMissing(mp, tr, x + TileDiffXY(1, 0), house_type + 1)
        ELSE IF TILE_SIZE_1x2 \in flags
        THEN ~PartMissing(mp, tr, x + TileDiffXY(0, 1), house_type + 1)
        ELSE IF TILE_SIZE_2x2 \in flags
        THEN /\ ~PartMissing(mp, tr, x + TileDiffXY(0, 1), house_type + 1)
             /\ ~PartMissing(mp, tr, x + TileDiffXY(1, 0), house_type + 2)
             /\ ~PartMissing(mp, tr, x + TileDiffXY(1, 1), house_type + 3)
        ELSE TRUE

ClearsTile_NorthOnly(mp, tr, x) ==
    LET np == GetHouseNorthPart(get_clean_house_type(mp, tr, x))
    IN  np.diff = 0 /\ ~ValidHouse(mp, tr, x, np.house)

(* Whether the body of the loop (lines 75-106) clears the house tile x.     *)
ClearsTile(mp, tr, x) ==
    LET np == GetHouseNorthPart(get_clean_house_type(mp, tr, x))
        north_tile == x + np.diff
        house_type == np.house
    IN  IF x = north_tile
        THEN ~ValidHouse(mp, tr, x, house_type)
        ELSE PartMissing(mp, tr, north_tile, house_type)

(* The first house tile at or after index from, MapSize if there is none:   *)
(* the iterations of line 73 that continue.                                 *)
NextHouseTile(mp, from) ==
    LET rest == {x \in from..(MapSize - 1) : IsTileType(mp, x, MP_HOUSE)}
    IN  IF rest = {} THEN MapSize ELSE CHOOSE x \in rest : \A y \in rest : x <= y

(* One iteration of the loop of CheckMultiTileHouseTypes that reaches a     *)
(* house tile, with the iterations before it that continue; or the end of   *)
(* the loop.                                                                *)
CheckTile ==
    /\ hpc \in {"pass1", "pass2"}
    /\ tpos < MapSize
    /\ LET x == NextHouseTile(tile_map, tpos)
       IN  IF x = MapSize
           THEN /\ tpos' = MapSize
                /\ UNCHANGED <<tile_map, cargo_update_required, cleared>>
           ELSE /\ tpos' = x + 1
                /\ IF ClearsTile(tile_map, translate_house_types, x)
                   THEN /\ tile_map' = DoClearSquare(tile_map, x)
                        /\ cargo_update_required' = TRUE
                        /\ cleared' = Append(cleared, x)
                   ELSE UNCHANGED <<tile_map, cargo_update_required, cleared>>
    /\ UNCHANGED <<translate_house_types, feature_missing, hpc, start_map>>
    /\ UNCHANGED <<dvars, svars>>

(* Line 142 of UpdateHousesAndTowns, after the first pass returned.         *)
SecondPass ==
    /\ hpc = "pass1"
    /\ tpos = MapSize
    /\ IF cargo_update_required \/ feature_missing
       THEN /\ hpc' = "pass2"
            /\ tpos' = 0
            /\ translate_house_types' = TRUE
            /\ start_map' = tile_map
            /\ cleared' = <<>>
       ELSE /\ hpc' = "done"
            /\ UNCHANGED <<tpos, translate_house_types, start_map, cleared>>
    /\ UNCHANGED <<tile_map, cargo_update_required, feature_missing>>
    /\ UNCHANGED <<dvars, svars>>

(* Line 144, after the second pass returned: RebuildTownCaches reads the    *)
(* map and the flag.                                                        *)
Rebuild ==
    /\ hpc = "pass2"
    /\ tpos = MapSize
    /\ hpc' = "done"
    /\ UNCHANGED <<tile_map, tpos, cargo_update_required, translate_house_types,
                   feature_missing, start_map, cleared>>
    /\ UNCHANGED <<dvars, svars>>

NextHouses == CheckTile \/ SecondPass \/ Rebuild

(* The maps: up to MaxHouseTiles house tiles of any stored type anywhere    *)
(* inside the border.                                                       *)
HouseMap(S, f) ==
    [x \in 0..(MapSize - 1) |->
        IF x \in S THEN HouseTile(f[x])
        ELSE IF IsBorderTile(x) THEN VoidTile ELSE ClearTile]

HousesIdle ==
    /\ tile_map = <<>>
    /\ tpos = 0
    /\ cargo_update_required = FALSE
    /\ translate_house_types = FALSE
    /\ feature_missing = FALSE
    /\ hpc = "idle"
    /\ start_map = <<>>
    /\ cleared = <<>>

(* The state when UpdateHousesAndTowns reaches line 141: the flag is its   *)
(* argument, or was set by the substitution of lines 122-138.              *)
InitHouses ==
    /\ \E S \in SUBSET InnerTiles :
          /\ Cardinality(S) <= MaxHouseTiles
          /\ \E f \in [S -> StoredHouseIDs] : tile_map = HouseMap(S, f)
    /\ tpos = 0
    /\ cargo_update_required \in BOOLEAN
    /\ translate_house_types = FALSE
    /\ feature_missing \in BOOLEAN
    /\ hpc = "pass1"
    /\ start_map = tile_map
    /\ cleared = <<>>

------------------------------------------------------------------------------
(* ScriptDate (src/src/script/api/script_date.cpp): one call of one of its  *)
(* functions.  The conversions of date.cpp are computed as that file        *)
(* computes them; sd_conv records each one the call performs.               *)

DATE_INVALID == -1
MAX_YEAR == 5000000

MaxDate == 40
Margin == 1

DAYS_IN_YEAR == 365
DAYS_IN_LEAP_YEAR == 366

IsLeapYear(yr) == yr % 4 = 0 /\ (yr % 100 # 0 \/ yr % 400 = 0)

LEAP_YEARS_TILL(year) ==
    IF year = 0 THEN 0
    ELSE ((year - 1) \div 4) - ((year - 1) \div 100) + ((year - 1) \div 400) + 1

DAYS_TILL(year) == DAYS_IN_YEAR * year + LEAP_YEARS_TILL(year)

(* _accum_days_for_month: the days of a leap year before each month 0..11.  *)
AccumDaysForMonth == <<0, 31, 60, 91, 121, 152, 182, 213, 244, 274, 305, 335>>
ACCUM_MAR == 60

ConvertYMDToDate(year, month, day) ==
    LET days == AccumDaysForMonth[month + 1] + day - 1
        adj == IF ~IsLeapYear(year) /\ days >= ACCUM_MAR THEN days - 1 ELSE days
    IN  DAYS_TILL(year) + adj

(* _month_date_from_year_day: the month 0..11 and the day of the rem-th day *)
(* of a leap year.                                                          *)
MonthDateFromYearDay(rem) ==
    LET mo == CHOOSE k \in 0..11 :
                  /\ AccumDaysForMonth[k + 1] <= rem
                  /\ (k = 11 \/ rem < AccumDaysForMonth[k + 2])
    IN  [month |-> mo, day |-> rem - AccumDaysForMonth[mo + 1] + 1]

RECURSIVE LastYears(_, _)
LastYears(yr, rem) ==
    LET len == IF IsLeapYear(yr) THEN DAYS_IN_LEAP_YEAR ELSE DAYS_IN_YEAR
    IN  IF rem >= len THEN LastYears(yr + 1, rem - len) ELSE [yr |-> yr, rem |-> rem]

ConvertDateToYMD(date) ==
    LET yr0 == 400 * (date \div (DAYS_IN_YEAR * 400 + 97))
        rem0 == date % (DAYS_IN_YEAR * 400 + 97)
        c == IF rem0 >= DAYS_IN_YEAR * 100 + 25
             THEN LET r == rem0 - (DAYS_IN_YEAR * 100 + 25)
                  IN  [yr |-> yr0 + 100 + 100 * (r \div (DAYS_IN_YEAR * 100 + 24)),
                       rem |-> r % (DAYS_IN_YEAR * 100 + 24)]
             ELSE [yr |-> yr0, rem |-> rem0]
        q == IF ~IsLeapYear(c.yr) /\ c.rem >= DAYS_IN_YEAR * 4
             THEN [yr |-> c.yr + 4, rem |-> c.rem - DAYS_IN_YEAR * 4]
             ELSE c
        f == [yr |-> q.yr + 4 * (q.rem \div (DAYS_IN_YEAR * 4 + 1)),
              rem |-> q.rem % (DAYS_IN_YEAR * 4 + 1)]
        l == LastYears(f.yr, f.rem)
        rem == IF ~IsLeapYear(l.yr) /\ l.rem >= ACCUM_MAR - 1 THEN l.rem + 1 ELSE l.rem
        x == MonthDateFromYearDay(rem)
    IN  [year |-> l.yr, month |-> x.month, day |-> x.day]

DateCall(fn, date) == [fn |-> fn, date |-> date, year |-> 0, month |-> 0, day_of_month |-> 0]
YMDCall(year, month, day_of_month) ==
    [fn |-> "GetDate", date |-> 0, year |-> year, month |-> month, day_of_month |-> day_of_month]

Returns(value) == sd_ret' = <<value>>
Converts(name) == sd_conv' = Append(sd_conv, name)

(* What ScriptDate::IsValidDate returns for date (line 23).                  *)
ValidDate(date) == date >= 0

IsValidDate ==
    /\ sd_call.fn = "IsValidDate" /\ sd_ret = <<>>
    /\ Returns(ValidDate(sd_call.date))
    /\ UNCHANGED <<sd_call, sd_conv>>
    /\ UNCHANGED <<dvars, hvars>>

GetYear ==
    /\ sd_call.fn = "GetYear" /\ sd_ret = <<>>
    /\ IF sd_call.date < 0
       THEN Returns(DATE_INVALID) /\ UNCHANGED sd_conv
       ELSE Returns(ConvertDateToYMD(sd_call.date).year) /\ Converts("ConvertDateToYMD")
    /\ UNCHANGED sd_call
    /\ UNCHANGED <<dvars, hvars>>

GetMonth ==
    /\ sd_call.fn = "GetMonth" /\ sd_ret = <<>>
    /\ IF sd_call.date < 0
       THEN Returns(DATE_INVALID) /\ UNCHANGED sd_conv
       ELSE Returns(ConvertDateToYMD(sd_call.date).month + 1) /\ Converts("ConvertDateToYMD")
    /\ UNCHANGED sd_call
    /\ UNCHANGED <<dvars, hvars>>

GetDayOfMonth ==
    /\ sd_call.fn = "GetDayOfMonth" /\ sd_ret = <<>>
    /\ IF sd_call.date < 0
       THEN Returns(DATE_INVALID) /\ UNCHANGED sd_conv
       ELSE Returns(ConvertDateToYMD(sd_call.date).day) /\ Converts("ConvertDateToYMD")
    /\ UNCHANGED sd_call
    /\ UNCHANGED <<dvars, hvars>>

GetDate_NoDayCheck ==
    /\ sd_call.fn = "GetDate" /\ sd_ret = <<>>
    /\ IF sd_call.month < 1 \/ sd_call.month > 12
       THEN Returns(DATE_INVALID) /\ UNCHANGED sd_conv
       ELSE IF sd_call.year < 0 \/ sd_call.year > MAX_YEAR
       THEN Returns(DATE_INVALID) /\ UNCHANGED sd_conv
       ELSE /\ Returns(ConvertYMDToDate(sd_call.year, sd_call.month - 1, sd_call.day_of_month))
            /\ Converts("ConvertYMDToDate")
    /\ UNCHANGED sd_call
    /\ UNCHANGED <<dvars, hvars>>

GetDate ==
    /\ sd_call.fn = "GetDate" /\ sd_ret = <<>>
    /\ IF sd_call.month < 1 \/ sd_call.month > 12
       THEN Returns(DATE_INVALID) /\ UNCHANGED sd_conv
       ELSE IF sd_call.day_of_month < 1 \/ sd_call.day_of_month > 31
       THEN Returns(DATE_INVALID) /\ UNCHANGED sd_conv
       ELSE IF sd_call.year < 0 \/ sd_call.year > MAX_YEAR
       THEN Returns(DATE_INVALID) /\ UNCHANGED sd_conv
       ELSE /\ Returns(ConvertYMDToDate(sd_call.year, sd_call.month - 1, sd_call.day_of_month))
            /\ Converts("ConvertYMDToDate")
    /\ UNCHANGED sd_call
    /\ UNCHANGED <<dvars, hvars>>

NextDate == IsValidDate \/ GetYear \/ GetMonth \/ GetDayOfMonth \/ GetDate

(* The calls: every date within MaxDate days of 0 and a few later ones;     *)
(* every month and day within Margin of its range, with years on both      *)
(* sides of each end of theirs.                                             *)
DateInputs == ((0 - MaxDate)..MaxDate) \cup {0 - INT32_MAX, 59, 60, 365, 366, 1461, 36524, 36525,
                                              146097, 730000, INT32_MAX}
YearInputs == {0 - INT32_MAX, -1, 0, 1, 4, 100, 2000, MAX_YEAR, MAX_YEAR + 1, INT32_MAX}
MonthInputs == (1 - Margin)..(12 + Margin)
DayInputs == (1 - Margin)..(31 + Margin)

ScriptCalls ==
    {DateCall(fn, d) : fn \in {"IsValidDate", "GetYear", "GetMonth", "GetDayOfMonth"},
                       d \in DateInputs}
    \cup {YMDCall(y, mo, d) : y \in YearInputs, mo \in MonthInputs, d \in DayInputs}

ScriptIdle ==
    /\ sd_call = DateCall("none", 0)
    /\ sd_ret = <<>>
    /\ sd_conv = <<>>

InitDate ==
    /\ sd_call \in ScriptCalls
    /\ sd_ret = <<>>
    /\ sd_conv = <<>>

DeparturesIdle ==
    /\ cfg = <<>>
    /\ veh = <<>>
    /\ pc = "idle"
    /\ ti = 0
    /\ vi = 0
    /\ next_orders = <<>>
    /\ least_order = 0
    /\ result = <<>>
    /\ i = LoopCap
    /\ keys = <<>>
    /\ walk = NoWalk
    /\ exit = "none"
    /\ earlier = <<>>

------------------------------------------------------------------------------
InitRun ==
    /\ pc = "start"
    /\ ti = 0
    /\ vi = 0
    /\ next_orders = <<>>
    /\ least_order = 0
    /\ result = <<>>
    /\ i = LoopCap
    /\ keys = <<>>
    /\ walk = NoWalk
    /\ exit = "none"
    /\ earlier = <<>>

Init == (InitMixed \/ InitVia \/ InitStates \/ InitFleet \/ InitMerge \/ InitRoster \/ InitRound \/ InitCargo
         \/ InitBoundary \/ InitBranch \/ InitLoading \/ InitUntimed \/ InitShorten
         \/ InitArrival \/ InitWaits \/ InitViaCall \/ InitNoFilter)
        /\ InitRun /\ HousesIdle /\ ScriptIdle

Spec == Init /\ [][Next]_vars

\* Two invocations on every snapshot.
SpecTwice == Init /\ [][NextTwice]_vars

InitHousesRun == InitHouses /\ DeparturesIdle /\ ScriptIdle

SpecHouses == InitHousesRun /\ [][NextHouses]_vars

InitDateRun == InitDate /\ DeparturesIdle /\ HousesIdle

SpecDate == InitDateRun /\ [][NextDate]_vars

------------------------------------------------------------------------------
(* The claims. *)

\* The current date in ticks (line 287) and the horizon in ticks (line 101).
Now == cfg.date * DAY_TICKS
Horizon == cfg.max_departure_time * DAY_TICKS

\* C1: the result never holds more than max_departures entries (so none at
\* all when max_departures is 0), at every point of the run.
C1_MaxResults == Len(result) <= cfg.max_departures

\* A run that stopped on the size check with a full, non-empty result.
C1_Witness ==
    /\ pc = "done" /\ exit = "size"
    /\ cfg.max_departures > 0
    /\ Len(result) = cfg.max_departures

\* C2 as stated: scheduled_date - lateness <= now + horizon for every entry,
\* the lateness being the one stored in the entry.
C2_Original ==
    \A k \in 1..Len(result) :
        result[k].scheduled_date - result[k].lateness <= Now + Horizon

\* C2 as amended: every entry's scheduled_date is within the horizon, and so
\* is scheduled_date - lateness when the stored lateness is not negative.
C2_ScheduledWithinHorizon ==
    \A k \in 1..Len(result) :
        /\ result[k].scheduled_date <= Now + Horizon
        /\ result[k].lateness >= 0
             => result[k].scheduled_date - result[k].lateness <= Now + Horizon

\* A returned entry of a late vehicle, scheduled at the horizon itself.
C2_Witness ==
    /\ pc = "done"
    /\ \E k \in 1..Len(result) :
          /\ result[k].lateness # 0
          /\ result[k].scheduled_date = Now + Horizon

\* C3: the selection keys the entries had when their candidates were selected
\* (expected_date - lateness, less the wait time of the source order in
\* Arrival mode) are non-decreasing in insertion order.
C3_KeysNonDecreasing ==
    /\ Len(keys) = Len(result)
    /\ \A k \in 1..(Len(keys) - 1) : keys[k] <= keys[k + 1]

\* C4: with merge_identical on, no two entries of the returned result are
\* identical in type, terminus, via, calling-at sequence and status,
\* whatever the other settings.
C4_NoIdenticalEntries ==
    (pc = "done" /\ cfg.departure_merge_identical) =>
        \A a, b \in 1..Len(result) : a < b => ~DepartureEq(result[a], result[b])

\* The walks of the last step, each a sequence of orders of vehicle walk.v.
Walks == {walk.scan, walk.term, walk.adv}
WalkOrder(n) == OrderAt(veh[walk.v], n)
IsConditionalAt(tr, k) == WalkOrder(tr[k]).type = OT_CONDITIONAL
HasConditional(tr) == \E k \in 1..Len(tr) : IsConditionalAt(tr, k)

\* One pass of the main loop that ran to its end.
LoopPass == pc = "loop" /\ pc' = "loop" /\ i' = i - 1

\* C5: every pass of the main loop appends an entry or strictly increases the
\* selection key of the candidate it advanced, and the loop never ends by
\* exhausting its cap.
C5_LoopProgress ==
    /\ [][LoopPass =>
            \/ Len(result') > Len(result)
            \/ SelectionKey(next_orders'[least_order]) > SelectionKey(next_orders[least_order])]_vars
    /\ [](exit # "cap")

\* C6: the computation does not end abnormally, no walk examines more orders
\* than the vehicle has, and the main loop stays within its cap.
C6_TerminatesBounded ==
    /\ pc # "crashed"
    /\ i >= 0 /\ i <= LoopCap
    /\ \A tr \in Walks : walk.v # 0 => Len(tr) <= GetNumOrders(veh[walk.v])

\* C7: under GiveUp a walk ends at the first conditional order it examines;
\* a scan that met one leaves no candidate for the vehicle, and an advance
\* that met one leaves the candidate at the sentinel date.
C7_GiveUpAborts ==
    cfg.departure_conditionals = 0 =>
        /\ \A tr \in Walks : \A k \in 1..(Len(tr) - 1) : ~IsConditionalAt(tr, k)
        /\ HasConditional(walk.scan) =>
              \A n \in 1..Len(next_orders) : next_orders[n].v # walk.v
        /\ HasConditional(walk.adv) =>
              \A n \in 1..Len(next_orders) :
                  next_orders[n].v = walk.v => next_orders[n].expected_date = INT32_MAX

\* C8: under TakeBranch the computation completes normally, whatever the
\* branch targets of the conditional orders.
C8_CompletesNormally == cfg.departure_conditionals = 1 => pc # "crashed"

\* C9: under SkipBranch the order a walk examines after a conditional order
\* is the next order of the list, the first one after the last.
C9_SkipBranchSequential ==
    cfg.departure_conditionals = 2 =>
        \A tr \in Walks : \A k \in 1..(Len(tr) - 1) :
            IsConditionalAt(tr, k) =>
                tr[k + 1] = (tr[k] + 1) % GetNumOrders(veh[walk.v])

\* A conditional order whose branch target is not the next order, passed by walk tr.
PassesBranch(tr) ==
    \E k \in 1..(Len(tr) - 1) :
        /\ IsConditionalAt(tr, k)
        /\ WalkOrder(tr[k]).skip_to # tr[k + 1]
        /\ GetOrder(veh[walk.v], WalkOrder(tr[k]).skip_to) # NULL

\* A pass of the main loop whose terminus walk and advance both went past the
\* branch of a conditional order.
C9_Witness ==
    /\ cfg.departure_conditionals = 2
    /\ PassesBranch(walk.term)
    /\ PassesBranch(walk.adv)

\* The same for the candidate scan of a vehicle that got a candidate.
C9_ScanWitness ==
    /\ cfg.departure_conditionals = 2
    /\ PassesBranch(walk.scan)
    /\ \E n \in 1..Len(next_orders) : next_orders[n].v = walk.v

C11_RosterFailureEmpty ==
    (/\ pc = "done"
     /\ \E t \in 0..(NumVehicleTypes - 1) : cfg.show_vehicle_types[t] /\ ~cfg.roster_ok[t])
        => result = <<>>

\* A run ended by a failed lookup after an earlier type had given candidates.
C11_Witness ==
    /\ pc = "done" /\ exit = "roster"
    /\ Len(next_orders) > 0

\* A vehicle heading for a depot to halt there.
DepotHalt(n) == veh[n].current_order = "depot_halt"

\* The scan of vehicle n ends at a qualifying order on a negative running date.
FirstCallInPast(n) ==
    LET s == ScanVehicleOrders(veh[n], UB_FAULT) IN
    /\ ~s.crashed
    /\ Qualifies(OrderAt(veh[n], s.order))
    /\ s.start_date < 0

\* C12: every entry of a vehicle heading for a depot to halt has status
\* Cancelled, and such a vehicle whose first qualifying order is reached on a
\* negative running date has no entry for that call (nor any other).
C12_DepotHaltCancelled ==
    /\ \A k \in 1..Len(result) :
          DepotHalt(result[k].vehicle) => result[k].status = D_CANCELLED
    /\ \A n \in 1..Len(veh) :
          (DepotHalt(n) /\ FirstCallInPast(n)) =>
              \A k \in 1..Len(result) : result[k].vehicle # n

\* Two cancelled entries of a halting vehicle: its first call and the next.
C12_Witness ==
    /\ pc = "done"
    /\ Len(result) >= 2
    /\ \A k \in 1..Len(result) :
          DepotHalt(result[k].vehicle) /\ result[k].status = D_CANCELLED

\* A halting vehicle whose first call lies in the past: the loop is not entered.
C12_ExcludedWitness ==
    /\ pc = "done" /\ exit = "empty"
    /\ DepotHalt(1) /\ FirstCallInPast(1)
    /\ cfg.max_departures > 0 /\ cfg.max_departure_time > 0

\* The entry the pass of the main loop under way appends in Departure mode,
\* as it is before the terminus-shortening pass.
NewEntries ==
    LET lo == next_orders[least_order]
        v == veh[lo.v]
    IN {DisplayLateness(v, FindTerminus(v, ub, NewDeparture(lo)).d) : ub \in NullReadOutcomes}

\* C13: a step that inserts an entry adds it as the last one, unchanged by
\* the terminus-shortening pass, and changes nothing of the earlier entries
\* but their terminus; a step that inserts nothing leaves the result alone.
C13_ShorteningFrame ==
    [][/\ Len(result') = Len(result) => result' = result
       /\ Len(result') # Len(result) =>
            /\ Len(result') = Len(result) + 1
            /\ cfg.type = D_DEPARTURE => result'[Len(result')] \in NewEntries
            /\ \A k \in 1..Len(result) :
                  result'[k] = [result[k] EXCEPT !.terminus = result'[k].terminus]]_vars

\* An earlier entry whose terminus a pass has moved off its last call.
C13_Witness ==
    /\ cfg.departure_smart_terminus /\ cfg.type = D_DEPARTURE
    /\ Len(result) >= 2
    /\ \E k \in 1..Len(result) :
          /\ Len(result[k].calling_at) >= 2
          /\ result[k].terminus.station
                # result[k].calling_at[Len(result[k].calling_at)].station

\* The snapshot of scenario A: one on-time vehicle on timetabled calls at
\* A = 2, B = 1 (wait 10) and C = 3 (wait 5), the board that of the
\* departures of B.
ScenarioA ==
    /\ Len(veh) = 1
    /\ cfg.type = D_DEPARTURE /\ cfg.station = 1
    /\ veh[1].lateness_counter = 0 /\ veh[1].current_order = "other"
    /\ Len(veh[1].orders) = 3
    /\ \A k \in 1..3 : /\ veh[1].orders[k].type = OT_GOTO_STATION
                        /\ veh[1].orders[k].timetabled
                        /\ ~NoStop(veh[1].orders[k])
    /\ <<veh[1].orders[1].dest, veh[1].orders[2].dest, veh[1].orders[3].dest>> = <<2, 1, 3>>
    /\ veh[1].orders[2].wait = 10 /\ veh[1].orders[3].wait = 5

\* The time of one round of the orders of vehicle 1, and the date of its
\* first departure from B.
RoundTime ==
    veh[1].orders[1].travel + veh[1].orders[1].wait + veh[1].orders[2].travel
      + veh[1].orders[2].wait + veh[1].orders[3].travel + veh[1].orders[3].wait
FirstDeparture ==
    cfg.date_fract - veh[1].current_order_time + veh[1].orders[1].travel
      + veh[1].orders[1].wait + veh[1].orders[2].travel + veh[1].orders[2].wait

\* C14 as stated: scenario A returns exactly one entry, with terminus C or A
\* and calling at C alone.
C14_Original ==
    (pc = "done" /\ ScenarioA) =>
        /\ Len(result) = 1
        /\ result[1].terminus.station \in {3, 2}
        /\ CallingAtStations(result[1]) = <<3>>

\* C14 as amended: scenario A returns one entry for every round that departs
\* within the horizon, max_departures at most, each with terminus A and
\* calling at C and then A.
C14_OneEntryPerRound ==
    (pc = "done" /\ ScenarioA /\ FirstDeparture <= max_date) =>
        /\ \A k \in 1..Len(result) :
              /\ result[k].terminus.station = 2
              /\ CallingAtStations(result[k]) = <<3, 2>>
              /\ result[k].scheduled_date = Now + FirstDeparture + (k - 1) * RoundTime
        /\ LET rounds == 1 + ((max_date - FirstDeparture) \div RoundTime) IN
           Len(result) = IF rounds < cfg.max_departures THEN rounds
                         ELSE cfg.max_departures

\* Scenario A returned with two entries, one round apart.
C14_Witness ==
    /\ pc = "done" /\ ScenarioA
    /\ Len(result) = 2
    /\ cfg.max_departures > 2

\* Some part of vehicle n with cargo capacity carries passenger-class cargo.
PassengerVehicle(n) ==
    \E k \in 1..Len(veh[n].parts) :
        veh[n].parts[k].cargo_cap > 0 /\ veh[n].parts[k].passengers

\* Vehicle n has a candidate.
HasCandidate(n) == \E m \in 1..Len(next_orders) : next_orders[m].v = n

\* C15: with exactly one of show_pax and show_freight set, only the vehicles
\* whose passenger-carrying matches show_pax have candidates and entries;
\* with both set, every vehicle that runs and whose scan finds an order has
\* its candidate, whatever it carries.
C15_CargoFilter ==
    /\ cfg.show_pax # cfg.show_freight =>
          /\ \A m \in 1..Len(next_orders) :
                PassengerVehicle(next_orders[m].v) = cfg.show_pax
          /\ \A k \in 1..Len(result) :
                PassengerVehicle(result[k].vehicle) = cfg.show_pax
    /\ (cfg.show_pax /\ cfg.show_freight /\ pc = "loop") =>
          \A n \in 1..Len(veh) :
              (/\ cfg.show_vehicle_types[veh[n].type]
               /\ ~veh[n].stopped_in_depot
               /\ ScanVehicleOrders(veh[n], UB_FAULT).found) => HasCandidate(n)

\* A freight board: the engine with a wagon has entries, the coach has none.
C15_Witness ==
    /\ pc = "done"
    /\ ~cfg.show_pax /\ cfg.show_freight
    /\ Len(veh) = 2
    /\ Len(veh[1].parts) = 2 /\ ~PassengerVehicle(1) /\ PassengerVehicle(2)
    /\ Len(result) > 0
    /\ \A k \in 1..Len(result) : result[k].vehicle = 1

\* Candidate n is within the horizon.
WithinHorizon(n) == next_orders[n].expected_date - next_orders[n].lateness <= max_date

\* C16: at the start of every pass of the main loop no candidate within the
\* horizon has a smaller key than the least order, and when the loop has
\* stopped on the horizon check no candidate within the horizon is left.
C16_LeastIsEarliest ==
    /\ pc = "loop" =>
          \A n \in 1..Len(next_orders) :
              WithinHorizon(n) =>
                  SelectionKey(next_orders[n]) >= SelectionKey(next_orders[least_order])
    /\ (pc = "done" /\ exit = "horizon") =>
          \A n \in 1..Len(next_orders) : ~WithinHorizon(n)

\* The advance of the least order, and the candidate scan started from the
\* same order with the same running date and the same lateness.
AdvanceOfLeast ==
    LET lo == next_orders[least_order] IN
    FindNextOrder(veh[lo.v], UB_FAULT, lo)
ScanFromLeast ==
    LET lo == next_orders[least_order]
        v == [veh[lo.v] EXCEPT !.lateness_counter = lo.lateness]
    IN ScanLoop(v, UB_FAULT, NextOrder(v, lo.order), lo.expected_date,
                D_TRAVELLING, GetNumOrders(v), <<>>)

\* C17: at every pass of the main loop the advance step and the candidate
\* scan, started alike, both fail or both find the same order on the same
\* running date.
C17_AdvanceAsScan ==
    (pc = "loop" /\ i > 0 /\ ~StopLooking) =>
        /\ AdvanceOfLeast.found = ScanFromLeast.found
        /\ AdvanceOfLeast.found =>
              /\ AdvanceOfLeast.order = ScanFromLeast.order
              /\ AdvanceOfLeast.expected_date = ScanFromLeast.start_date

\* Candidate n has the sentinel date.
Excluded(n) == next_orders[n].expected_date = INT32_MAX

\* C18: an advance that finds no order gives the candidate the sentinel
\* date; from then on no step changes that candidate or makes an entry of
\* it, and no step of the main loop changes the number of candidates.
C18_SentinelStays ==
    [][pc = "loop" =>
         /\ Len(next_orders') = Len(next_orders)
         /\ \A n \in 1..Len(next_orders) :
               Excluded(n) => next_orders'[n] = next_orders[n]
         /\ (LoopPass /\ ~AdvanceOfLeast.found) =>
               next_orders'[least_order].expected_date = INT32_MAX
         /\ (LoopPass \/ Len(result') > Len(result)) => ~Excluded(least_order)]_vars

\* A candidate with the sentinel date in the list while the loop is about
\* to serve another one.
C18_Witness ==
    /\ pc = "loop" /\ i > 0 /\ ~StopLooking
    /\ Len(result) > 0
    /\ \E n \in 1..Len(next_orders) : n # least_order /\ Excluded(n)

\* C19: a pass of the main loop leaves the expected_date of the candidate it
\* advanced no smaller than before and within 32 bits, and leaves every
\* other candidate as it was.
C19_AdvanceMonotone ==
    [][LoopPass =>
         /\ next_orders'[least_order].expected_date
               >= next_orders[least_order].expected_date
         /\ next_orders'[least_order].expected_date <= INT32_MAX
         /\ \A n \in 1..Len(next_orders) :
               n # least_order => next_orders'[n] = next_orders[n]]_vars

\* A candidate advanced beside another one to a call later than the last
\* entry, not to the sentinel.
C19_Witness ==
    /\ pc = "loop"
    /\ Len(next_orders) >= 2
    /\ walk.adv # <<>>
    /\ \E n \in 1..Len(next_orders) :
          /\ next_orders[n].v = walk.v
          /\ ~Excluded(n)
          /\ result # <<>>
          /\ next_orders[n].expected_date
                > result[Len(result)].scheduled_date - Now

\* The travel and wait times of the first k orders of the scan just made.
RECURSIVE ScanTimes(_)
ScanTimes(k) ==
    IF k = 0 THEN 0
    ELSE ScanTimes(k - 1) + WalkOrder(walk.scan[k]).travel + WalkOrder(walk.scan[k]).wait

\* The scan just made took one branch, that of the last order but one it
\* examined, and made a candidate of the branch target; the vehicle is on
\* time and not loading.
BranchToCandidate ==
    /\ cfg.departure_conditionals = 1
    /\ Len(walk.scan) >= 2
    /\ \A k \in 1..Len(walk.scan) :
          IsConditionalAt(walk.scan, k) <=> k = Len(walk.scan) - 1
    /\ WalkOrder(walk.scan[Len(walk.scan) - 1]).skip_to = walk.scan[Len(walk.scan)]
    /\ veh[walk.v].lateness_counter = 0 /\ veh[walk.v].current_order = "other"
    /\ next_orders # <<>>
    /\ next_orders[Len(next_orders)].v = walk.v
    /\ next_orders[Len(next_orders)].order = walk.scan[Len(walk.scan)]

\* The running date of the scan just made before its last order but one.
DateBeforeBranch ==
    cfg.date_fract - veh[walk.v].current_order_time + ScanTimes(Len(walk.scan) - 2)

\* C20 as stated: the running date on reaching the branch target is the date
\* before the conditional order plus the conditional order's wait time plus
\* the target's travel and wait time.
C20_Original ==
    BranchToCandidate =>
        LET c == WalkOrder(walk.scan[Len(walk.scan) - 1])
            t == WalkOrder(walk.scan[Len(walk.scan)])
        IN next_orders[Len(next_orders)].expected_date
             = DateBeforeBranch + c.wait + t.travel + t.wait

\* C20 as amended: the travel time subtracted is the branch target's, so the
\* running date on reaching the target is the date before the conditional
\* order plus the conditional order's travel and wait time plus the target's
\* wait time.
C20_TargetTravelCancelled ==
    BranchToCandidate =>
        LET c == WalkOrder(walk.scan[Len(walk.scan) - 1])
            t == WalkOrder(walk.scan[Len(walk.scan)])
        IN next_orders[Len(next_orders)].expected_date
             = DateBeforeBranch + c.travel + c.wait + t.wait

\* A branch taken after a call elsewhere, from a conditional order with a
\* wait time and a travel time other than the target's.
C20_Witness ==
    /\ BranchToCandidate
    /\ Len(walk.scan) = 3
    /\ WalkOrder(walk.scan[2]).wait > 0
    /\ WalkOrder(walk.scan[2]).travel # WalkOrder(walk.scan[3]).travel

\* Candidate n may replace the least order in the search of lines 629-643.
MayReplace(n) == next_orders[n].expected_date - next_orders[n].lateness < max_date

\* The candidate of the vehicle of the last step: the one the last pass of
\* the main loop advanced.
IsAdvanced(n) == i < LoopCap /\ next_orders[n].v = walk.v

C21_ScanWitness ==
    /\ pc = "loop" /\ i = LoopCap
    /\ \E n \in (least_order + 1)..Len(next_orders) :
          SelectionKey(next_orders[n]) = SelectionKey(next_orders[least_order])

\* The order a vehicle is at: its current order in the list (line 144).
CurrentOrderOf(v) == v.cur_implicit_order_index % GetNumOrders(v)

\* C22: an entry has status Arrived only if its vehicle is in a loading order
\* and the entry was made of the vehicle's current order, and it is then the
\* first entry of that vehicle: no entry made after an advance is Arrived.
C22_ArrivedOnlyAtCurrent ==
    \A k \in 1..Len(result) :
        result[k].status = D_ARRIVED =>
            /\ veh[result[k].vehicle].current_order = OT_LOADING
            /\ result[k].order = CurrentOrderOf(veh[result[k].vehicle])
            /\ \A j \in 1..(k - 1) : result[j].vehicle # result[k].vehicle

\* C22 without the source order: an Arrived entry is of a loading vehicle
\* and is the first entry of that vehicle.
C22_ArrivedOnlyLoadingFirst ==
    \A k \in 1..Len(result) :
        result[k].status = D_ARRIVED =>
            /\ veh[result[k].vehicle].current_order = OT_LOADING
            /\ \A j \in 1..(k - 1) : result[j].vehicle # result[k].vehicle

\* The calls of a Departure-mode entry in the order the terminus walk
\* recorded them.
Departures == {k \in 1..Len(result) : result[k].type = D_DEPARTURE}

\* C23: in the calling-at list of a Departure-mode entry every call recorded
\* after a call with the sentinel date 0 has the sentinel date, and so has
\* the terminus the walk recorded last.
C23_SentinelDateSticks ==
    \A k \in Departures :
        \A a, b \in 1..Len(result[k].calling_at) :
            (a < b /\ result[k].calling_at[a].scheduled_date = 0)
                => result[k].calling_at[b].scheduled_date = 0

\* The destinations of the go-to-station orders of vehicle n.
StationsOrdered(n) ==
    {veh[n].orders[k].dest : k \in {j \in 1..Len(veh[n].orders) :
                                      veh[n].orders[j].type = OT_GOTO_STATION}}

\* C24 as stated: the calls and the terminus of a Departure-mode entry are
\* destinations of go-to-station orders of its vehicle, none is the
\* destination of an implicit order only.
C24_Original ==
    \A k \in Departures :
        /\ result[k].terminus.station \in StationsOrdered(result[k].vehicle)
        /\ \A c \in 1..Len(result[k].calling_at) :
              result[k].calling_at[c].station \in StationsOrdered(result[k].vehicle)

\* The vehicle stops and unloads at implicit order o.
ImplicitCall(o) ==
    /\ o.type = OT_IMPLICIT
    /\ ~NoStop(o)
    /\ (o.unload # OUFB_NO_UNLOAD \/ cfg.departure_show_all_stops)

\* C24: the terminus walk treats an implicit order as a call: the
\* destination of every implicit order the walk of a new Departure-mode
\* entry came to is in the calling-at list of that entry.
C24_ImplicitCallsRecorded ==
    [][(Len(result') > Len(result) /\ cfg.type = D_DEPARTURE) =>
          \A k \in 1..Len(walk'.term) :
              ImplicitCall(OrderAt(veh[walk'.v], walk'.term[k])) =>
                  \E c \in 1..Len(result'[Len(result')].calling_at) :
                      result'[Len(result')].calling_at[c].station
                          = OrderAt(veh[walk'.v], walk'.term[k]).dest]_vars

\* An entry whose terminus is a station the vehicle has an implicit order
\* for and no go-to-station order.
C24_Witness ==
    \E k \in Departures :
        /\ result[k].terminus.station \notin StationsOrdered(result[k].vehicle)
        /\ \E j \in 1..Len(veh[result[k].vehicle].orders) :
              /\ ImplicitCall(veh[result[k].vehicle].orders[j])
              /\ veh[result[k].vehicle].orders[j].dest = result[k].terminus.station

\* The positions of the terminus of entry e in its calling-at list.
TerminusPositions(e) ==
    {p \in 1..Len(e.calling_at) : e.calling_at[p].station = e.terminus.station}

\* C25: no step moves the terminus of a Departure-mode entry to a station
\* later in the entry's calling-at list than the one it is at.
C25_TerminusNeverLater ==
    [][\A n \in 1..Len(result) :
          result[n].type = D_DEPARTURE =>
              \A p \in TerminusPositions(result[n]), q \in TerminusPositions(result'[n]) :
                  q <= p]_vars

\* C26: every Departure-mode entry has a calling-at list that is not empty
\* and has its terminus in it, and the terminus of an entry just inserted is
\* the last call of its list.
C26_TerminusInCallingAt ==
    /\ [](\A k \in Departures :
             /\ Len(result[k].calling_at) > 0
             /\ \E p \in 1..Len(result[k].calling_at) :
                   result[k].calling_at[p] = result[k].terminus)
    /\ [][(Len(result') > Len(result) /\ cfg.type = D_DEPARTURE) =>
             result'[Len(result')].terminus
                 = result'[Len(result')].calling_at[Len(result'[Len(result')].calling_at)]]_vars

\* An entry whose terminus a shortening pass has moved off the last call of
\* its list, with a later entry in the result.
C26_Witness ==
    \E k \in Departures :
        /\ k < Len(result)
        /\ Len(result[k].calling_at) >= 2
        /\ result[k].terminus # result[k].calling_at[Len(result[k].calling_at)]

\* The vehicle calls at order o: the order passes the test of lines 378-383.
CallsAt(o) ==
    /\ o.type \in {OT_GOTO_STATION, OT_IMPLICIT}
    /\ ~NoStop(o)
    /\ (o.unload # OUFB_NO_UNLOAD \/ cfg.departure_show_all_stops)

\* The order the terminus walk of the last step ended at.
LastWalked == OrderAt(veh[walk.v], walk.term[Len(walk.term)])

\* C27: no station is twice in the calling-at list of a Departure-mode
\* entry, and an entry whose walk ended at a call at a station already in
\* its list has the last call of the list for its terminus.
C27_NoStationTwice ==
    /\ [](\A k \in Departures :
             \A a, b \in 1..Len(result[k].calling_at) :
                 a < b => result[k].calling_at[a].station # result[k].calling_at[b].station)
    /\ [][(Len(result') > Len(result) /\ cfg.type = D_DEPARTURE) =>
             LET e == result'[Len(result')] IN
             (CallsAt(LastWalked') /\ Contains(e.calling_at, CallAt(LastWalked'.dest, 0)))
                 => e.terminus = e.calling_at[Len(e.calling_at)]]_vars

\* The walk of the newest entry has come twice to a call at one station:
\* the first was recorded, the walk ended at the second.
C27_Witness ==
    /\ pc = "loop" /\ cfg.type = D_DEPARTURE
    /\ Len(result) > 0 /\ Len(walk.term) >= 2
    /\ result[Len(result)].vehicle = walk.v
    /\ NextOrder(veh[walk.v], result[Len(result)].order) = walk.term[1]
    /\ CallsAt(LastWalked)
    /\ \E k \in 1..(Len(walk.term) - 1) :
          /\ CallsAt(WalkOrder(walk.term[k]))
          /\ WalkOrder(walk.term[k]).dest = LastWalked.dest
          /\ walk.term[k] # walk.term[Len(walk.term)]
    /\ Contains(result[Len(result)].calling_at, CallAt(LastWalked.dest, 0))

\* The order of vehicle v that comes s orders after order t.
OrderAfter(v, t, s) == (t + s) % GetNumOrders(v)

\* Order o loads at a station other than the board station.
LoadingCallElsewhere(o) ==
    /\ o.type \in {OT_GOTO_STATION, OT_IMPLICIT}
    /\ (o.load # OLFB_NO_LOAD \/ cfg.departure_show_all_stops)
    /\ o.dest # cfg.station

\* Order o, on the way from origin to the board station, unloads all, or
\* visits the station of origin or the board station.
Collides(o, origin) ==
    \/ o.unload = OUFB_UNLOAD
    \/ /\ o.type \in {OT_GOTO_STATION, OT_IMPLICIT}
       /\ o.dest \in {origin.dest, cfg.station}

\* The distances from target order t of the orders of v that can be the
\* origin of the arrival at t.
Origins(v, t) ==
    {s \in 1..(GetNumOrders(v) - 1) :
        /\ LoadingCallElsewhere(OrderAt(v, OrderAfter(v, t, s)))
        /\ \A u \in (s + 1)..(GetNumOrders(v) - 1) :
              ~Collides(OrderAt(v, OrderAfter(v, t, u)), OrderAt(v, OrderAfter(v, t, s)))}

\* The origin of the arrival at order t: the first order that can be.
OriginOf(v, t) ==
    OrderAfter(v, t, CHOOSE s \in Origins(v, t) : \A u \in Origins(v, t) : s <= u)

\* The order the pass of the main loop about to run makes an entry of.
Served == next_orders[least_order]

\* C28: in Arrival mode a pass of the main loop inserts an entry only if
\* some order can be the origin, the terminus of the entry is then the
\* destination of the first such order after the target order, and with an
\* origin and no merging of identical entries the entry is inserted.
C28_ArrivalOrigin ==
    [][(pc = "loop" /\ cfg.type = D_ARRIVAL /\ result' # result) =>
          /\ Origins(veh[Served.v], Served.order) # {}
          /\ result'[Len(result')].terminus.station
                = OrderAt(veh[Served.v], OriginOf(veh[Served.v], Served.order)).dest]_vars
    /\ [][(pc = "loop" /\ cfg.type = D_ARRIVAL /\ i' = i - 1 /\ ~cfg.departure_merge_identical
           /\ Origins(veh[Served.v], Served.order) # {}) =>
          Len(result') = Len(result) + 1]_vars

\* An arrival whose origin is not the first loading call after the target
\* order, that one having a collision on its way to the board station.
C28_Witness ==
    /\ pc = "loop" /\ cfg.type = D_ARRIVAL /\ result # <<>>
    /\ LET e == result[Len(result)]
           v == veh[e.vehicle]
       IN /\ Origins(v, e.order) # {}
          /\ e.terminus.station = OrderAt(v, OriginOf(v, e.order)).dest
          /\ \E s \in 1..(GetNumOrders(v) - 1) :
                /\ s \notin Origins(v, e.order)
                /\ OrderAfter(v, e.order, s) # OriginOf(v, e.order)
                /\ LoadingCallElsewhere(OrderAt(v, OrderAfter(v, e.order, s)))
                /\ \A u \in Origins(v, e.order) : s < u

\* The orders of v strictly between the origin of the arrival at order t and
\* order t, in travel order.
BetweenOrigin(v, t) ==
    LET first == CHOOSE s \in Origins(v, t) : \A u \in Origins(v, t) : s <= u IN
    [k \in 1..(GetNumOrders(v) - 1 - first) |-> OrderAt(v, OrderAfter(v, t, first + k))]

\* Order o is a go-to-station or implicit order at which the vehicle loads.
LoadingCall(o) ==
    /\ o.type \in {OT_GOTO_STATION, OT_IMPLICIT}
    /\ (o.load # OLFB_NO_LOAD \/ cfg.departure_show_all_stops)

\* Order o is a go-to-station order at which the vehicle loads.
LoadingStationCall(o) ==
    /\ o.type = OT_GOTO_STATION
    /\ (o.load # OLFB_NO_LOAD \/ cfg.departure_show_all_stops)

\* The destinations of a sequence of orders.
Destinations(orders) == [k \in 1..Len(orders) |-> orders[k].dest]

\* C29: the calling-at list of an entry inserted in Arrival mode is the
\* sequence of the destinations of the go-to-station and implicit orders
\* between the origin and the target order at which the vehicle loads.
C29_ArrivalCallingAt ==
    [][(pc = "loop" /\ cfg.type = D_ARRIVAL /\ result' # result) =>
          CallingAtStations(result'[Len(result')])
              = Destinations(SelectSeq(BetweenOrigin(veh[Served.v], Served.order), LoadingCall))]_vars

\* C29 for the go-to-station orders alone.
C29_ArrivalStationCalls ==
    [][(pc = "loop" /\ cfg.type = D_ARRIVAL /\ result' # result) =>
          CallingAtStations(result'[Len(result')])
              = Destinations(SelectSeq(BetweenOrigin(veh[Served.v], Served.order),
                                       LoadingStationCall))]_vars

\* Order o, neither conditional nor implicit, has no travel time: zero and
\* not timetabled.
NoTravelData(o) ==
    /\ o.travel = 0 /\ ~o.timetabled
    /\ o.type \notin {OT_CONDITIONAL, OT_IMPLICIT}

\* Walk tr of the last step went on past an order without travel time.
WalkedPast(tr) == \E k \in 1..(Len(tr) - 1) : NoTravelData(WalkOrder(tr[k]))

\* C30: the candidate scan and the advance step end at an order whose travel
\* time is zero and not timetabled: no candidate and no entry is made of
\* such an order, and neither walk goes on past one.
C30_NoDataStopsWalk ==
    /\ \A k \in 1..Len(result) : ~NoTravelData(OrderAt(veh[result[k].vehicle], result[k].order))
    /\ \A n \in 1..Len(next_orders) : ~NoTravelData(OrderAt(veh[next_orders[n].v], next_orders[n].order))
    /\ ~WalkedPast(walk.scan)
    /\ ~WalkedPast(walk.adv)

\* After an entry was made the advance of its candidate ended at a call at
\* the board station that qualifies but for its travel time, which is zero
\* and not timetabled: the candidate got the sentinel date and the call
\* made no entry.
C30_Witness ==
    /\ pc = "loop" /\ Len(result) > 0
    /\ Len(walk.adv) > 0
    /\ NoTravelData(WalkOrder(walk.adv[Len(walk.adv)]))
    /\ Qualifies(WalkOrder(walk.adv[Len(walk.adv)]))
    /\ \E n \in 1..Len(next_orders) : next_orders[n].v = walk.v /\ Excluded(n)

\* The candidate scan ended at such a call at the board station, the first
\* order of a list that has a timetabled call at the board station later,
\* and the vehicle got no candidate.
C30_ScanQualifiesWitness ==
    /\ pc \in {"scan", "lookup", "done"} /\ walk.v # 0
    /\ Len(walk.scan) > 0 /\ Len(walk.scan) < GetNumOrders(veh[walk.v])
    /\ NoTravelData(WalkOrder(walk.scan[Len(walk.scan)]))
    /\ Qualifies(WalkOrder(walk.scan[Len(walk.scan)]))
    /\ \E k \in 1..GetNumOrders(veh[walk.v]) :
          Qualifies(veh[walk.v].orders[k]) /\ ~NoTravelData(veh[walk.v].orders[k])
    /\ next_orders = <<>>

\* After an entry was made the advance of its candidate ended at a call
\* without travel time, the candidate getting the sentinel date, on a list
\* that has the target order next.
C30_AdvanceWitness ==
    /\ pc = "loop" /\ Len(result) > 0
    /\ Len(walk.adv) > 0
    /\ NoTravelData(WalkOrder(walk.adv[Len(walk.adv)]))
    /\ WalkOrder(walk.adv[Len(walk.adv)]).type = OT_GOTO_STATION
    /\ NextOrder(veh[walk.v], walk.adv[Len(walk.adv)]) = result[Len(result)].order
    /\ \E n \in 1..Len(next_orders) : next_orders[n].v = walk.v /\ Excluded(n)

\* The candidate scan ended at a call without travel time with a call at
\* the board station beyond it.
C30_ScanWitness ==
    /\ pc \in {"scan", "lookup", "done"} /\ walk.v # 0
    /\ Len(walk.scan) > 0 /\ Len(walk.scan) < GetNumOrders(veh[walk.v])
    /\ NoTravelData(WalkOrder(walk.scan[Len(walk.scan)]))
    /\ Qualifies(WalkOrder(NextOrder(veh[walk.v], walk.scan[Len(walk.scan)])))
    /\ next_orders = <<>>

\* Order k of terminus walk tr of vehicle v passes a station without
\* stopping (lines 361-367).
PassesAt(v, tr, k) ==
    /\ OrderAt(v, tr[k]).type = OT_GOTO_STATION
    /\ NoStop(OrderAt(v, tr[k]))

\* Order k of terminus walk tr of vehicle v, made for the departure at order
\* target, was recorded as a call: the first call of the walk at its
\* station, before the walk came back to the board station or to target.
Recorded(v, tr, target, k) ==
    /\ CallsAt(OrderAt(v, tr[k]))
    /\ ~ReachesStationAgain(OrderAt(v, tr[k]))
    /\ tr[k] # target
    /\ \A j \in 1..(k - 1) :
          CallsAt(OrderAt(v, tr[j])) => OrderAt(v, tr[j]).dest # OrderAt(v, tr[k]).dest

\* The call recorded at order k is at the station the walk passed last.
CallsWherePassed(v, tr, target, k) ==
    /\ Recorded(v, tr, target, k)
    /\ \E a \in 1..(k - 1) :
          /\ PassesAt(v, tr, a)
          /\ OrderAt(v, tr[a]).dest = OrderAt(v, tr[k]).dest
          /\ \A b \in (a + 1)..(k - 1) : ~PassesAt(v, tr, b)

\* The via station by walk tr: the station of the first recorded call at the
\* station passed last, if there is one.
ViaOf(v, tr, target) ==
    LET hits == {k \in 1..Len(tr) : CallsWherePassed(v, tr, target, k)} IN
    IF hits = {} THEN INVALID_STATION
    ELSE OrderAt(v, tr[CHOOSE k \in hits : \A j \in hits : k <= j]).dest

\* C31: the via station of a new Departure-mode entry is the station of the
\* first call the walk recorded at the station it had passed last without
\* stopping, a station of the entry's calling-at list, or none if the walk
\* recorded no such call; no step changes the via station of an entry
\* already in the result.
C31_ViaSetOnce ==
    /\ [][(Len(result') > Len(result) /\ cfg.type = D_DEPARTURE) =>
             /\ result'[Len(result')].via
                   = ViaOf(veh[walk'.v], walk'.term, result'[Len(result')].order)
             /\ result'[Len(result')].via # INVALID_STATION =>
                   \E c \in 1..Len(result'[Len(result')].calling_at) :
                       result'[Len(result')].calling_at[c].station = result'[Len(result')].via]_vars
    /\ [][\A n \in 1..Len(result) : result'[n].via = result[n].via]_vars

\* The newest entry has a via station, and its walk recorded a second call
\* at a station passed just before, which did not change the via station.
C31_Witness ==
    /\ pc = "loop" /\ cfg.type = D_DEPARTURE /\ Len(result) > 0
    /\ result[Len(result)].vehicle = walk.v
    /\ NextOrder(veh[walk.v], result[Len(result)].order) = walk.term[1]
    /\ result[Len(result)].via # INVALID_STATION
    /\ \E k \in 1..Len(walk.term) :
          /\ CallsWherePassed(veh[walk.v], walk.term, result[Len(result)].order, k)
          /\ OrderAt(veh[walk.v], walk.term[k]).dest # result[Len(result)].via

\* C32: with show_pax and show_freight both false the computation ends at
\* once: no roster is looked up, no vehicle is scanned and the result stays
\* empty.
C32_NoFilterEmpty ==
    (~cfg.show_pax /\ ~cfg.show_freight) =>
        /\ pc \in {"start", "done"}
        /\ pc = "done" => exit = "nofilter"
        /\ result = <<>>
        /\ next_orders = <<>>
        /\ ti = 0 /\ vi = 0 /\ walk = NoWalk

\* The computation has returned at line 95 with a fleet at the station whose
\* types are all shown and whose rosters can all be looked up.
C32_Witness ==
    /\ pc = "done" /\ exit = "nofilter"
    /\ Len(veh) = MaxVehicles
    /\ \A n \in 1..Len(veh) :
          /\ cfg.show_vehicle_types[veh[n].type] /\ cfg.roster_ok[veh[n].type]
          /\ \E k \in 1..Len(veh[n].orders) : Qualifies(veh[n].orders[k])


------------------------------------------------------------------------------
(* C33: CheckMultiTileHouseTypes leaves no tile of an incomplete house.     *)

(* The other tiles of a house whose north tile has north_type: the offset   *)
(* of each and what its type exceeds north_type by.                         *)
PartsOf(north_type) ==
    LET flags == HouseSpec(north_type).building_flags
    IN  IF TILE_SIZE_2x1 \in flags THEN {<<TileDiffXY(1, 0), 1>>}
        ELSE IF TILE_SIZE_1x2 \in flags THEN {<<TileDiffXY(0, 1), 1>>}
        ELSE IF TILE_SIZE_2x2 \in flags
        THEN {<<TileDiffXY(0, 1), 1>>, <<TileDiffXY(1, 0), 2>>, <<TileDiffXY(1, 1), 3>>}
        ELSE {}

IsHouseOfType(mp, tr, x, type) ==
    mp[x].type = MP_HOUSE /\ get_clean_house_type(mp, tr, x) = type

(* The house with the north tile n of north_type has all its tiles.         *)
HouseComplete(mp, tr, n, north_type) ==
    /\ IsHouseOfType(mp, tr, n, north_type)
    /\ \A p \in PartsOf(north_type) : IsHouseOfType(mp, tr, n + p[1], north_type + p[2])

(* The house tile x belongs to a house that lacks a tile.                   *)
InIncompleteHouse(mp, tr, x) ==
    /\ mp[x].type = MP_HOUSE
    /\ LET np == GetHouseNorthPart(get_clean_house_type(mp, tr, x))
       IN  ~HouseComplete(mp, tr, x + np.diff, np.house)

IsNorthTile(mp, tr, x) ==
    mp[x].type = MP_HOUSE /\ GetHouseNorthPart(get_clean_house_type(mp, tr, x)).diff = 0

(* The tiles, other than its north tile n, of the house that n began when   *)
(* the pass started.                                                        *)
OtherTilesOf(mp, tr, n) ==
    LET north_type == get_clean_house_type(mp, tr, n)
    IN  {n + p[1] : p \in {q \in PartsOf(north_type) :
                             IsHouseOfType(mp, tr, n + q[1], north_type + q[2])}}

PassEnded == hpc \in {"pass1", "pass2"} /\ tpos = MapSize

(* C33: when a pass of CheckMultiTileHouseTypes over the map has ended, no  *)
(* house tile belongs to an incomplete multi-tile house; for every north    *)
(* tile the pass cleared, every other tile its house had when the pass      *)
(* began was cleared later in the pass; and cargo_update_required is set as *)
(* soon as the pass has cleared a tile.                                     *)
C33_NoIncompleteHouseLeft ==
    /\ hpc \in {"pass1", "pass2"} /\ cleared # <<>> => cargo_update_required
    /\ PassEnded =>
         /\ \A x \in 0..(MapSize - 1) : ~InIncompleteHouse(tile_map, translate_house_types, x)
         /\ \A k \in 1..Len(cleared) :
                IsNorthTile(start_map, translate_house_types, cleared[k]) =>
                    \A p \in OtherTilesOf(start_map, translate_house_types, cleared[k]) :
                        \E j \in (k + 1)..Len(cleared) : cleared[j] = p

(* A first pass has ended that cleared the north tile of a 2x2 house that   *)
(* lacked a part, and after it the two parts the house had.                 *)
C33_Witness ==
    /\ PassEnded /\ hpc = "pass1"
    /\ Len(cleared) = 3
    /\ IsNorthTile(start_map, FALSE, cleared[1])
    /\ TILE_SIZE_2x2 \in HouseSpec(get_clean_house_type(start_map, FALSE, cleared[1])).building_flags
    /\ OtherTilesOf(start_map, FALSE, cleared[1]) = {cleared[2], cleared[3]}
    /\ cargo_update_required


------------------------------------------------------------------------------
(* C34: the ScriptDate functions refuse invalid arguments.                  *)

Returned == sd_ret # <<>>

(* The call is one that the functions must refuse: a date for which         *)
(* IsValidDate is false, or a month, a day or a year outside its range.     *)
InvalidCall ==
    \/ /\ sd_call.fn \in {"GetYear", "GetMonth", "GetDayOfMonth"}
       /\ ~ValidDate(sd_call.date)
    \/ /\ sd_call.fn = "GetDate"
       /\ \/ sd_call.month \notin 1..12
          \/ sd_call.day_of_month \notin 1..31
          \/ sd_call.year \notin 0..MAX_YEAR

(* C34: GetYear, GetMonth and GetDayOfMonth return DATE_INVALID for every   *)
(* date for which IsValidDate is false, and GetDate returns DATE_INVALID    *)
(* whenever the month is outside 1..12, the day outside 1..31 or the year   *)
(* outside 0..MAX_YEAR; in all these cases no date conversion is performed. *)
C34_InvalidArgumentsRefused ==
    /\ InvalidCall => sd_conv = <<>>
    /\ InvalidCall /\ Returned => sd_ret = <<DATE_INVALID>>
    /\ sd_call.fn = "IsValidDate" /\ Returned => (sd_ret[1] <=> sd_call.date >= 0)

(* GetDate has returned DATE_INVALID without a conversion for a month and a *)
(* day within their ranges and the year after MAX_YEAR.                     *)
C34_Witness ==
    /\ sd_call.fn = "GetDate" /\ Returned
    /\ sd_call.month \in 1..12 /\ sd_call.day_of_month \in 1..31
    /\ sd_call.year = MAX_YEAR + 1
    /\ sd_ret = <<DATE_INVALID>> /\ sd_conv = <<>>

=============================================================================
